---- MODULE Spec2Model ----
(***************************************************************************)
(* A model of the MALS core: the Blackboard (shared task state with        *)
(* write-through persistence), its consensus sub-protocol, and the         *)
(* Conductor's sense-think-act loop, translated from src/mals/core.        *)
(***************************************************************************)
EXTENDS Integers, Sequences, FiniteSets, TLC

VARIABLES
    board,        \* the Blackboard object: state (BlackboardState) and backend
    ret,          \* what the last API call returned or raised
    ws_calls,     \* the write_workspace / delete_workspace calls made so far
    registry,     \* AgentRegistry._agents: the agent registered under each name
    metrics,      \* MetricsCollector._agent_metrics: the counters of each agent
    policy,       \* the class of decision function the Conductor's LLM client is
    max_steps,    \* Conductor._max_steps
    step_count,   \* Conductor._step_count
    last_agent,   \* Conductor._last_agent
    repeat_count, \* Conductor._repeat_count
    pc,           \* where Conductor.run stands
    raw_response, \* what the decision function answered in the current step
    decision,     \* the ConductorDecision of the current step
    invocation,   \* index in invocation_log of the record opened by this step
    think_calls,  \* calls of the decision function (LLMClient.complete) so far
    cycles,       \* consensus outcomes recorded by _invoke_agent
    final_status, \* the value returned by Conductor.run
    prompt,       \* the hints in the prompt of the current step's decision call
    total_usage,  \* LLMClient._total_usage.input_tokens of the Conductor's client
    conductor_metrics, \* MetricsCollector: _conductor and _status_transitions
    recorder,     \* the EventRecorder attached to the Conductor, if any
    other_board,  \* the state of a second Blackboard over the same backend, if any
    other_conductor \* _last_agent and _repeat_count of a second Conductor

vars == << board, ret, ws_calls, registry, metrics, policy, max_steps, step_count, last_agent, repeat_count,
           pc, raw_response, decision, invocation, think_calls, cycles, final_status,
           prompt, total_usage, conductor_metrics, recorder, other_board, other_conductor >>

conductor_vars == << metrics, policy, max_steps, step_count, last_agent, repeat_count, pc,
                     raw_response, decision, invocation, think_calls, cycles,
                     final_status, prompt, total_usage, conductor_metrics, recorder,
                     other_board, other_conductor >>

\* What belongs to a second Blackboard and a second Conductor
other_vars == << other_board, other_conductor >>

-----------------------------------------------------------------------------
(* Bounds of the model *)

MaxSteps == 4        \* largest max_steps a Conductor is created with
MaxCalls == 4        \* Blackboard API calls per behaviour of the board specifications
MaxIterations == 3   \* largest max_iterations passed to start_consensus
MaxReviewSteps == 6  \* largest max_steps of a run that plans nothing

-----------------------------------------------------------------------------
(* Values *)

\* GlobalStatus
PLANNING == "PLANNING"
EXECUTING == "EXECUTING"
REFINING == "REFINING"
VERIFYING == "VERIFYING"
WAITING_USER == "WAITING_USER"
COMPLETED == "COMPLETED"
FAILED == "FAILED"
GlobalStatus == {PLANNING, EXECUTING, REFINING, VERIFYING, WAITING_USER, COMPLETED, FAILED}
Terminal == {COMPLETED, FAILED}

\* ConsensusStatus
PENDING_REVIEW == "pending_review"
IN_REVIEW == "in_review"
APPROVED == "approved"
REJECTED == "rejected"

\* HypothesisStatus
PROPOSED == "proposed"
VALIDATED == "validated"
HYP_REJECTED == "rejected"
HypothesisStatus == {PROPOSED, VALIDATED, HYP_REJECTED}

\* Python's None where a string is expected
None == "<None>"

\* An optional object: <<>> is None, <<x>> is the object x
Nothing == << >>
Some(x) == << x >>
IsSome(o) == o # << >>
The(o) == o[1]

\* Workspace values: a string, or a plan (a dict with a "steps" list, of which
\* the model keeps each step's output_field), or None.  size is the number of
\* characters of the value's text: len(v) of a str, len(json.dumps(v)) of a
\* dict, len(str(v)) of any other value.
RECURSIVE steps_size(_)
steps_size(fs) ==
    IF fs = << >> THEN 0
    ELSE Len("{\"output_field\": \"\"}") + Len(Head(fs))
         + (IF Tail(fs) = << >> THEN 0 ELSE Len(", ")) + steps_size(Tail(fs))

Str(s) == [type |-> "str", text |-> s, steps |-> << >>, size |-> Len(s)]
Plan(fs) == [type |-> "dict", text |-> "", steps |-> fs,
             size |-> Len("{\"steps\": []}") + steps_size(fs)]
NoValue == [type |-> "none", text |-> "", steps |-> << >>, size |-> Len("None")]

\* A value of the type ("str", "dict", "list", "int") whose text has the size,
\* its content left out
Value(type, size) == [type |-> type, text |-> "", steps |-> << >>, size |-> size]

TaskId == "t1"

-----------------------------------------------------------------------------
(* Sequence helpers *)

Last(s) == s[Len(s)]

SeqRemove(s, x) == SelectSeq(s, LAMBDA y: y # x)

InSeq(s, x) == \E i \in 1..Len(s) : s[i] = x

\* dict[k] = v
Put(d, k, v) == [x \in DOMAIN d \cup {k} |-> IF x = k THEN v ELSE d[x]]

\* dict.pop(k, None)
Pop(d, k) == [x \in DOMAIN d \ {k} |-> d[x]]

\* dict.get(k)
Get(d, k) == IF k \in DOMAIN d THEN d[k] ELSE NoValue

EmptyDict == [x \in {} |-> NoValue]

-----------------------------------------------------------------------------
(* BlackboardState and the Blackboard API.  An operation is a function from *)
(* the Blackboard object b = [state, backend] to the object after the call. *)

NewState(objective) ==
    [ task_id |-> TaskId,
      objective |-> objective,
      updated_at |-> 0,
      global_status |-> PLANNING,
      status_history |-> << >>,
      workspace |-> EmptyDict,
      hypothesis_thread |-> << >>,
      consensus |-> Nothing,
      memory |-> [hot |-> << >>, warm |-> EmptyDict],
      invocation_log |-> << >> ]

\* BlackboardState.touch: updated_at is a clock that only moves forward
touch(s) == [s EXCEPT !.updated_at = @ + 1]

\* A workspace value (Any) serialized: a str as a JSON string, a dict as a JSON
\* object, a list as a JSON array, an int as a number, None as null
dump_value(v) ==
    [ json |-> IF v.type = "str" THEN "string"
               ELSE IF v.type = "dict" THEN "object"
               ELSE IF v.type = "list" THEN "array"
               ELSE IF v.type = "int" THEN "number"
               ELSE "null",
      text |-> v.text,
      items |-> v.steps,
      size |-> v.size ]

\* A JSON value validated as Any
validate_value(j) ==
    [ type |-> IF j.json = "string" THEN "str"
               ELSE IF j.json = "object" THEN "dict"
               ELSE IF j.json = "array" THEN "list"
               ELSE IF j.json = "number" THEN "int"
               ELSE "none",
      text |-> j.text,
      steps |-> j.items,
      size |-> j.size ]

\* An optional field serialized: None as null, an object by its fields
dump_optional(o) == [null |-> o = Nothing, fields |-> o]

\* Validation that reads every optional object as None
validate_optional_none(j) == Nothing

\* The optional object a JSON value validates to
validate_optional(j) == IF j.null THEN Nothing ELSE j.fields

\* A str | None field serialized
dump_optional_str(e) == [null |-> e = None, text |-> IF e = None THEN "" ELSE e]

validate_optional_str(j) == IF j.null THEN None ELSE j.text

\* BlackboardState.model_dump_json: the JSON text of the state
model_dump_json(s) ==
    [ task_id |-> s.task_id,
      objective |-> s.objective,
      updated_at |-> s.updated_at,
      global_status |-> s.global_status,
      status_history |-> s.status_history,
      workspace |-> [k \in DOMAIN s.workspace |-> dump_value(s.workspace[k])],
      hypothesis_thread |-> s.hypothesis_thread,
      consensus |-> dump_optional(s.consensus),
      memory |-> s.memory,
      invocation_log |->
        [i \in 1..Len(s.invocation_log) |->
            [agent_name |-> s.invocation_log[i].agent_name,
             status |-> s.invocation_log[i].status,
             error |-> dump_optional_str(s.invocation_log[i].error)]] ]

\* BlackboardState.model_validate_json: the state the JSON text describes
model_validate_json(raw) ==
    [ task_id |-> raw.task_id,
      objective |-> raw.objective,
      updated_at |-> raw.updated_at,
      global_status |-> raw.global_status,
      status_history |-> raw.status_history,
      workspace |-> [k \in DOMAIN raw.workspace |-> validate_value(raw.workspace[k])],
      hypothesis_thread |-> raw.hypothesis_thread,
      consensus |-> validate_optional(raw.consensus),
      memory |-> raw.memory,
      invocation_log |->
        [i \in 1..Len(raw.invocation_log) |->
            [agent_name |-> raw.invocation_log[i].agent_name,
             status |-> raw.invocation_log[i].status,
             error |-> validate_optional_str(raw.invocation_log[i].error)]] ]

\* A store with room for one record: saving a state drops every other record
save_single_record(backend, s) == [k \in {s.task_id} |-> model_dump_json(s)]

\* InMemoryBackend.save: the store keeps the JSON text under the task id
save(backend, s) == Put(backend, s.task_id, model_dump_json(s))

\* InMemoryBackend.load: the state read back, None when the id is not stored
load(backend, task_id) ==
    IF task_id \in DOMAIN backend
    THEN Some(model_validate_json(backend[task_id]))
    ELSE Nothing

\* Blackboard._persist
persist(b) ==
    LET s == touch(b.state)
    IN [state |-> s, backend |-> save(b.backend, s)]

\* Blackboard.initialize
initialize(objective) ==
    persist([state |-> NewState(objective),
             backend |-> [x \in {} |-> model_dump_json(NewState(""))]])

\* Blackboard.resume: the error it raises, "" when it returns
resume_error(backend, task_id) ==
    IF load(backend, task_id) = Nothing THEN "ValueError: Task not found" ELSE ""

\* Blackboard.resume on a Blackboard created over the backend: the object after
\* the call, its state the one loaded
resume(backend, task_id) ==
    [state |-> The(load(backend, task_id)), backend |-> backend]

\* set_status that records a transition only when the status changes
set_status_changes_only(b, new_status, reason) ==
    IF b.state.global_status = new_status
    THEN persist(b)
    ELSE persist([b EXCEPT
            !.state.status_history =
                Append(@, [from_status |-> b.state.global_status,
                           to_status |-> new_status,
                           reason |-> reason]),
            !.state.global_status = new_status])

\* Blackboard.set_status
set_status(b, new_status, reason) ==
    persist([b EXCEPT
        !.state.status_history =
            Append(@, [from_status |-> b.state.global_status,
                       to_status |-> new_status,
                       reason |-> reason]),
        !.state.global_status = new_status])

\* Blackboard.read_workspace
read_workspace(b, field) == Get(b.state.workspace, field)

\* Blackboard.write_workspace
write_workspace(b, field, value) ==
    persist([b EXCEPT
        !.state.workspace = Put(@, field, value),
        !.state.memory.hot = IF InSeq(@, field) THEN @ ELSE Append(@, field)])

\* delete_workspace that forgets the field in hot and keeps its value
delete_workspace_hot_only(b, field) ==
    persist([b EXCEPT !.state.memory.hot = SeqRemove(@, field)])

\* Blackboard.delete_workspace
delete_workspace(b, field) ==
    persist([b EXCEPT
        !.state.workspace = Pop(@, field),
        !.state.memory.hot = SeqRemove(@, field)])

\* Blackboard.propose_hypothesis: the new hypothesis gets a fresh id
propose_hypothesis(b, content, author_agent) ==
    persist([b EXCEPT
        !.state.hypothesis_thread =
            Append(@, [id |-> Len(@) + 1,
                       content |-> content,
                       author_agent |-> author_agent,
                       status |-> PROPOSED,
                       evidence |-> << >>])])

\* The index of the first hypothesis with the id, 0 when there is none
HypothesisIndex(thread, hypothesis_id) ==
    IF \E i \in 1..Len(thread) : thread[i].id = hypothesis_id
    THEN CHOOSE i \in 1..Len(thread) :
            /\ thread[i].id = hypothesis_id
            /\ \A j \in 1..(i - 1) : thread[j].id # hypothesis_id
    ELSE 0

\* Blackboard.resolve_hypothesis: the error it raises, "" when it returns
resolve_hypothesis_error(b, hypothesis_id) ==
    IF HypothesisIndex(b.state.hypothesis_thread, hypothesis_id) = 0
    THEN "ValueError: Hypothesis not found"
    ELSE ""

\* resolve_hypothesis that persists before it looks the id up
resolve_hypothesis_persists(b, hypothesis_id, status, evidence) ==
    LET i == HypothesisIndex(b.state.hypothesis_thread, hypothesis_id)
    IN IF i = 0
       THEN persist(b)
       ELSE persist([b EXCEPT
                !.state.hypothesis_thread[i].status = status,
                !.state.hypothesis_thread[i].evidence =
                    IF evidence # "" THEN Append(@, evidence) ELSE @])

\* Blackboard.resolve_hypothesis: the object after the call
resolve_hypothesis(b, hypothesis_id, status, evidence) ==
    LET i == HypothesisIndex(b.state.hypothesis_thread, hypothesis_id)
    IN IF i = 0
       THEN b
       ELSE persist([b EXCEPT
                !.state.hypothesis_thread[i].status = status,
                !.state.hypothesis_thread[i].evidence =
                    IF evidence # "" THEN Append(@, evidence) ELSE @])

\* A cycle that starts as in_review
ConsensusState_in_review(target_field, max_iterations) ==
    [ target_field |-> target_field,
      status |-> IN_REVIEW,
      review_history |-> << >>,
      max_iterations |-> max_iterations,
      current_iteration |-> 0 ]

\* ConsensusState(target_field, max_iterations)
ConsensusState(target_field, max_iterations) ==
    [ target_field |-> target_field,
      status |-> PENDING_REVIEW,
      review_history |-> << >>,
      max_iterations |-> max_iterations,
      current_iteration |-> 0 ]

\* start_consensus that leaves an active cycle as it is
start_consensus_keeps_active(b, target_field, max_iterations) ==
    IF b.state.consensus # Nothing
    THEN persist(b)
    ELSE persist([b EXCEPT
            !.state.consensus = Some(ConsensusState(target_field, max_iterations))])

\* Blackboard.start_consensus
start_consensus(b, target_field, max_iterations) ==
    persist([b EXCEPT
        !.state.consensus = Some(ConsensusState(target_field, max_iterations))])

\* Blackboard.submit_review: the error it raises, "" when it returns
submit_review_error(b) ==
    IF b.state.consensus = Nothing
    THEN "RuntimeError: No active consensus cycle."
    ELSE ""

\* The cap compared with > where the code has >=
ReviewedStatus_late(verdict, current_iteration, max_iterations) ==
    IF verdict = APPROVED THEN APPROVED
    ELSE IF current_iteration > max_iterations THEN APPROVED
    ELSE REJECTED

\* The status submit_review gives the cycle once the review is counted
ReviewedStatus(verdict, current_iteration, max_iterations) ==
    IF verdict = APPROVED THEN APPROVED
    ELSE IF current_iteration >= max_iterations THEN APPROVED
    ELSE REJECTED

\* submit_review that opens a cycle of its own when none is active
submit_review_opens_cycle(b, reviewer_agent, verdict, critique) ==
    LET c == IF b.state.consensus = Nothing
             THEN ConsensusState("", 3)
             ELSE The(b.state.consensus)
        it == c.current_iteration + 1
    IN persist([b EXCEPT !.state.consensus = Some(
            [c EXCEPT
                !.review_history =
                    Append(@, [reviewer_agent |-> reviewer_agent,
                               verdict |-> verdict,
                               critique |-> critique]),
                !.current_iteration = it,
                !.status = ReviewedStatus(verdict, it, c.max_iterations)])])

\* Blackboard.submit_review: the object after the call
submit_review(b, reviewer_agent, verdict, critique) ==
    IF b.state.consensus = Nothing
    THEN b
    ELSE LET c == The(b.state.consensus)
             it == c.current_iteration + 1
         IN persist([b EXCEPT !.state.consensus = Some(
                [c EXCEPT
                    !.review_history =
                        Append(@, [reviewer_agent |-> reviewer_agent,
                                   verdict |-> verdict,
                                   critique |-> critique]),
                    !.current_iteration = it,
                    !.status = ReviewedStatus(verdict, it, c.max_iterations)])])

\* Blackboard.clear_consensus
clear_consensus(b) ==
    persist([b EXCEPT !.state.consensus = Nothing])

\* Blackboard.log_invocation_start
log_invocation_start(b, agent_name) ==
    persist([b EXCEPT
        !.state.invocation_log =
            Append(@, [agent_name |-> agent_name, status |-> "running", error |-> None])])

\* An end of invocation that persists and leaves the record as it was
log_invocation_end_not_closed(b, i, status, error) == persist(b)

\* Blackboard.log_invocation_end on the record at index i
log_invocation_end(b, i, status, error) ==
    persist([b EXCEPT
        !.state.invocation_log[i].status = status,
        !.state.invocation_log[i].error = error])

-----------------------------------------------------------------------------
(* The Blackboard API called directly, in any order *)

\* The decision functions a run is studied under: any function at all, one that
\* always answers invoke_agent for one agent name, one that never answers a
\* terminal action.  The last two answer well-formed decisions only.
AnyDecision == [kind |-> "any", agent |-> None]
SameAgent(a) == [kind |-> "same_agent", agent |-> a]
NoTerminal == [kind |-> "no_terminal", agent |-> None]

\* A decision function whose run is recorded as events
Recorded == [kind |-> "observed", agent |-> None]

\* A decision function that only ever invokes a producer, the critic or the
\* summarizer
ReviewLoop == [kind |-> "review_loop", agent |-> None]

\* AgentMetrics(name): the counters of an agent not yet invoked
AgentMetrics ==
    [invocation_count |-> 0, success_count |-> 0, error_count |-> 0]

\* MetricsCollector(): no agent has counters
MetricsCollector == [n \in {} |-> AgentMetrics]

\* MetricsCollector.record_agent_invocation
record_agent_invocation(m, agent_name, success) ==
    LET cur == IF agent_name \in DOMAIN m THEN m[agent_name] ELSE AgentMetrics
    IN Put(m, agent_name,
           [invocation_count |-> cur.invocation_count + 1,
            success_count |-> cur.success_count + (IF success THEN 1 ELSE 0),
            error_count |-> cur.error_count + (IF success THEN 0 ELSE 1)])

\* ConductorMetrics() and the empty _status_transitions of MetricsCollector()
ConductorMetrics ==
    [total_steps |-> 0, total_input_tokens |-> 0, status_transitions |-> << >>]

\* Conductor: the class attributes _last_agent and _repeat_count, which an
\* instance reads until it has assigned its own
ClassAttributes == [last_agent |-> None, repeat_count |-> 0]

\* A Conductor that has been created and not run
ConductorCreated(k) ==
    /\ prompt = Nothing
    /\ total_usage = 0
    /\ conductor_metrics = ConductorMetrics
    /\ recorder = Nothing
    /\ other_board = Nothing
    /\ other_conductor = ClassAttributes
    /\ metrics = MetricsCollector
    /\ policy = AnyDecision
    /\ max_steps = k
    /\ step_count = 0
    /\ last_agent = None
    /\ repeat_count = 0
    /\ pc = "created"
    /\ raw_response = Nothing
    /\ decision = Nothing
    /\ invocation = 0
    /\ think_calls = 0
    /\ cycles = << >>
    /\ final_status = None

NoCall == [op |-> "", arg |-> None, value |-> NoValue, error |-> ""]

Returned(op, arg, value) == [op |-> op, arg |-> arg, value |-> value, error |-> ""]

Outcome(op, arg, error) == [op |-> op, arg |-> arg, value |-> NoValue, error |-> error]

\* AgentSpec(name, description)
AgentSpec(name, description) == [name |-> name, description |-> description]

\* AgentRegistry(): no agent is registered
AgentRegistry == [n \in {} |-> AgentSpec("", "")]

\* AgentRegistry.register: the error it raises, "" when it returns
register_error(agents, agent) ==
    IF agent.name \in DOMAIN agents
    THEN "ValueError: Agent is already registered."
    ELSE ""

\* register that binds the name to the new agent whatever was bound to it
register_overwrites(agents, agent) == Put(agents, agent.name, agent)

\* AgentRegistry.register: the registry after the call
register(agents, agent) ==
    IF agent.name \in DOMAIN agents THEN agents ELSE Put(agents, agent.name, agent)

\* AgentRegistry.get: the agent bound to the name, None when there is none
get(agents, name) == IF name \in DOMAIN agents THEN Some(agents[name]) ELSE Nothing

InitBoard ==
    /\ board = initialize("X")
    /\ ret = NoCall
    /\ ws_calls = << >>
    /\ registry = AgentRegistry
    /\ ConductorCreated(0)

\* Further persisting calls are made while the clock is within the bound
CanCall == board.state.updated_at <= MaxCalls

Keys == {"code", "tests"}
Values == {Str("a"), Str("b")}

WriteWorkspace ==
    /\ Len(ws_calls) < MaxCalls
    /\ \E k \in Keys, v \in Values :
        /\ board' = write_workspace(board, k, v)
        /\ ws_calls' = Append(ws_calls, [op |-> "write", field |-> k, value |-> v])
        /\ ret' = Returned("write_workspace", k, NoValue)
    /\ UNCHANGED << registry, conductor_vars >>

DeleteWorkspace ==
    /\ Len(ws_calls) < MaxCalls
    /\ \E k \in Keys :
        /\ board' = delete_workspace(board, k)
        /\ ws_calls' = Append(ws_calls, [op |-> "delete", field |-> k, value |-> NoValue])
        /\ ret' = Returned("delete_workspace", k, NoValue)
    /\ UNCHANGED << registry, conductor_vars >>

ReadWorkspace ==
    /\ \E k \in Keys :
        ret' = Returned("read_workspace", k, read_workspace(board, k))
    /\ UNCHANGED << board, ws_calls >>
    /\ UNCHANGED << registry, conductor_vars >>

NextWorkspace == WriteWorkspace \/ DeleteWorkspace \/ ReadWorkspace

SpecWorkspace == InitBoard /\ [][NextWorkspace]_vars

Verdicts == {APPROVED, REJECTED}

StartConsensus ==
    /\ CanCall
    /\ \E f \in Keys, n \in 0..MaxIterations :
        /\ board' = start_consensus(board, f, n)
        /\ ret' = Returned("start_consensus", f, NoValue)
    /\ UNCHANGED ws_calls
    /\ UNCHANGED << registry, conductor_vars >>

SubmitReview ==
    /\ CanCall
    /\ \E v \in Verdicts :
        /\ board' = submit_review(board, "critic", v, "critique")
        /\ ret' = Outcome("submit_review", v, submit_review_error(board))
    /\ UNCHANGED ws_calls
    /\ UNCHANGED << registry, conductor_vars >>

ClearConsensus ==
    /\ CanCall
    /\ board' = clear_consensus(board)
    /\ ret' = Returned("clear_consensus", None, NoValue)
    /\ UNCHANGED ws_calls
    /\ UNCHANGED << registry, conductor_vars >>

NextConsensus == StartConsensus \/ SubmitReview \/ ClearConsensus

SpecConsensus == InitBoard /\ [][NextConsensus]_vars

\* ConsensusStatus: every value a caller may pass submit_review as the verdict
ConsensusStatus == {PENDING_REVIEW, IN_REVIEW, APPROVED, REJECTED}

SubmitAnyVerdict ==
    /\ CanCall
    /\ \E v \in ConsensusStatus :
        /\ board' = submit_review(board, "critic", v, "critique")
        /\ ret' = Outcome("submit_review", v, submit_review_error(board))
    /\ UNCHANGED ws_calls
    /\ UNCHANGED << registry, conductor_vars >>

NextVerdicts == StartConsensus \/ SubmitAnyVerdict \/ ClearConsensus

\* The consensus API called in any order with any verdict
SpecVerdicts == InitBoard /\ [][NextVerdicts]_vars

\* The ids resolve_hypothesis is called with: those given out so far and others
HypothesisIds == 1..(MaxCalls + 1)

ProposeHypothesis ==
    /\ CanCall
    /\ board' = propose_hypothesis(board, "content", "debugger")
    /\ ret' = Returned("propose_hypothesis", None, NoValue)
    /\ UNCHANGED ws_calls
    /\ UNCHANGED << registry, conductor_vars >>

ResolveHypothesis ==
    /\ CanCall
    /\ \E id \in HypothesisIds, st \in {VALIDATED, HYP_REJECTED}, ev \in {"", "evidence"} :
        /\ board' = resolve_hypothesis(board, id, st, ev)
        /\ ret' = Outcome("resolve_hypothesis", id, resolve_hypothesis_error(board, id))
    /\ UNCHANGED ws_calls
    /\ UNCHANGED << registry, conductor_vars >>

NextHypothesis == ProposeHypothesis \/ ResolveHypothesis

SpecHypothesis == InitBoard /\ [][NextHypothesis]_vars

-----------------------------------------------------------------------------
(* The agents: AgentRegistry, MemoryManager.slice_context, the built-ins *)

\* The names MALSEngine registers (create_builtin_agents)
Registry == {"planner", "code_generator", "critic", "writer", "summarizer"}

\* The registry of a MALSEngine: the built-in agents, each under its name
BuiltinRegistry == [n \in Registry |-> AgentSpec(n, "built-in")]

\* A decoded JSON array where a string is expected: a Python list, unhashable
JsonList == "<list>"

\* AgentRegistry.get: the error it raises, "" when it returns
registry_get_error(name) ==
    IF name = JsonList THEN "TypeError: unhashable type" ELSE ""

\* AgentRegistry.get: the agent found, None when there is none
registry_get(name) == IF name \in Registry THEN name ELSE None

\* relevant_fields as decoded from the decision: a list of field names, or a
\* JSON number, which is not iterable
FieldList(fs) == [type |-> "list", items |-> fs]
JsonNumber == [type |-> "number", items |-> << >>]

\* MemoryManager.slice_context: the error it raises, "" when it returns
slice_context_error(relevant_fields) ==
    IF relevant_fields.type # "list" THEN "TypeError: object is not iterable" ELSE ""

\* The key a field's warm summary is given in the context: f"{field}_summary"
summary_key(field) == field \o "_summary"

\* MemoryManager.slice_context, the loop over relevant_fields: the workspace
\* part of the context once the fields are gone through, from the part so far
RECURSIVE slice_fields(_, _, _)
slice_fields(state, fields, workspace) ==
    IF fields = << >> THEN workspace
    ELSE LET field == Head(fields)
         IN slice_fields(state, Tail(fields),
                IF field \in DOMAIN state.workspace
                THEN Put(workspace, field, state.workspace[field])
                ELSE IF field \in DOMAIN state.memory.warm
                THEN Put(workspace, summary_key(field), state.memory.warm[field])
                ELSE workspace)

\* slice_context that hands the agent the whole workspace
slice_context_whole(state, relevant_fields, include_consensus) ==
    [ objective |-> state.objective,
      global_status |-> state.global_status,
      workspace |-> state.workspace,
      consensus |-> Nothing ]

\* MemoryManager.slice_context
slice_context(state, relevant_fields, include_consensus) ==
    [ objective |-> state.objective,
      global_status |-> state.global_status,
      workspace |-> slice_fields(state, relevant_fields.items, EmptyDict),
      consensus |-> IF include_consensus /\ state.consensus # Nothing
                    THEN Some([target_field |-> The(state.consensus).target_field,
                               status |-> The(state.consensus).status,
                               iteration |-> The(state.consensus).current_iteration])
                    ELSE Nothing ]

\* Python truthiness of a workspace value
Truthy(v) == \/ v.type = "str" /\ v.size > 0
             \/ v.type = "dict" /\ v.steps # << >>

\* The plan steps whose output field is missing from, or empty in, the workspace given
TodoSteps(workspace, plan) ==
    {i \in 1..Len(plan.steps) :
        \/ plan.steps[i] \notin DOMAIN workspace
        \/ ~Truthy(workspace[plan.steps[i]])}

\* builtins._determine_output_field
determine_output_field(workspace, plan, prefer) ==
    IF plan.type = "dict" /\ plan.steps # << >> /\ TodoSteps(workspace, plan) # {}
    THEN plan.steps[CHOOSE i \in TodoSteps(workspace, plan) :
                        \A j \in TodoSteps(workspace, plan) : i <= j]
    ELSE prefer

\* start_consensus's default max_iterations
DefaultMaxIterations == 3

\* What the agents' LLM client answers
Content == Str("text")
Plans == {Plan(<< "code", "tests" >>), Plan(<< "result" >>)}

\* builtins.planner, its LLM call having returned the plan
planner(b, context, plan) == write_workspace(b, "plan", plan)

\* builtins.code_generator, its LLM call having returned
code_generator(b, context) ==
    LET output_field ==
            determine_output_field(context.workspace, Get(context.workspace, "plan"), "code")
    IN start_consensus(write_workspace(b, output_field, Content),
                       output_field, DefaultMaxIterations)

\* builtins.critic, its LLM call (if any) having returned a review with the verdict
critic(b, context, verdict) ==
    IF b.state.consensus = Nothing
    THEN b
    ELSE submit_review(b, "critic", verdict, "critique")

\* builtins.writer, its LLM call having returned
writer(b, context) ==
    LET output_field ==
            determine_output_field(context.workspace, Get(context.workspace, "plan"), "result")
    IN start_consensus(write_workspace(b, output_field, Content),
                       output_field, DefaultMaxIterations)

\* builtins.summarizer, its LLM call having returned
summarizer(b, context) == write_workspace(b, "final_summary", Content)

-----------------------------------------------------------------------------
(* The Conductor: THINK *)

ConductorDecision(action, agent_name, relevant_fields, include_consensus, reason) ==
    [ action |-> action,
      agent_name |-> agent_name,
      relevant_fields |-> relevant_fields,
      include_consensus |-> include_consensus,
      status_update |-> None,
      reason |-> reason ]

\* A key the JSON object does not have
Absent == "<absent>"

\* What LLMClient.complete does in the think step: it raises, or returns text
\* that is no JSON, or JSON that is no object, or a JSON object.  An absent
\* relevant_fields or include_consensus is its default, [] or false.
Reply(kind, action, agent_name, relevant_fields, include_consensus, reason) ==
    [ kind |-> kind,
      action |-> action,
      agent_name |-> agent_name,
      relevant_fields |-> relevant_fields,
      include_consensus |-> include_consensus,
      status_update |-> Absent,
      reason |-> reason ]

\* A JSON object asking for a status: {"action": "update_status",
\* "status_update": status, "reason": reason}
StatusReply(status, reason) ==
    [Reply("json_object", "update_status", None, FieldList(<< >>), FALSE, reason)
        EXCEPT !.status_update = status]

NoObject(kind) == Reply(kind, Absent, Absent, FieldList(<< >>), FALSE, Absent)

\* dict.get(key, default) on the decoded object: JSON null decodes to None
GetOr(v, default) == IF v = Absent THEN default ELSE v

ConductorError == "Conductor error"

\* Conductor._think, from the LLM client's reply to the decision
think(reply) ==
    IF reply.kind # "json_object"
    THEN ConductorDecision("fail", None, FieldList(<< >>), FALSE, ConductorError)
    ELSE ConductorDecision(GetOr(reply.action, "fail"),
                           GetOr(reply.agent_name, None),
                           reply.relevant_fields,
                           reply.include_consensus,
                           GetOr(reply.reason, ""))

\* The agent names a decision may carry: registered or not
AgentNames == Registry \cup {"ghost"}

\* The field lists a well-formed decision may carry
FieldLists ==
    {FieldList(<< >>), FieldList(<< "plan" >>),
     FieldList(<< "plan", "code", "tests", "result" >>)}

\* Well-formed invoke_agent decisions naming the agents of the set
InvokeReplies(names) ==
    {Reply("json_object", "invoke_agent", a, fs, ic, "r") :
        a \in names, fs \in FieldLists, ic \in BOOLEAN}

\* Well-formed decisions with the actions of the set, naming no agent
PlainReplies(actions) ==
    {Reply("json_object", act, None, FieldList(<< >>), FALSE, "r") : act \in actions}

\* Decisions asking for one of the statuses a decision function may move the
\* task to
StatusReplies == {StatusReply(st, "r") : st \in {REFINING, VERIFYING, WAITING_USER}}

\* Non-conforming replies: no JSON object; an object with no action or a null
\* one; a reason that is null; an agent name or field list of the wrong type
MalformedReplies ==
    {NoObject("raise"), NoObject("not_json"), NoObject("json_array")}
    \cup {Reply("json_object", act, None, FieldList(<< >>), FALSE, r) :
            act \in {Absent, None, "complete", "fail"}, r \in {Absent, None, "r"}}
    \cup {Reply("json_object", "invoke_agent", a, FieldList(<< >>), FALSE, "r") :
            a \in {JsonList, ""}}
    \cup {Reply("json_object", "invoke_agent", a, JsonNumber, FALSE, "r") :
            a \in {"planner", "ghost"}}

\* Well-formed invoke_agent decisions for the producers, the critic and the
\* summarizer, the consensus state included in the context
ReviewReplies ==
    {Reply("json_object", "invoke_agent", a, FieldList(<< "plan" >>), TRUE, "r") :
        a \in {"code_generator", "writer", "critic", "summarizer"}}

\* The replies of a decision function run with a recorder attached: well-formed
\* decisions, an action that does not exist, a null reason, a failed call
ObservedReplies ==
    {Reply("json_object", "invoke_agent", a, FieldList(<< "plan" >>), TRUE, "r") :
        a \in AgentNames}
    \cup PlainReplies({"complete", "fail", "wait_user", "restart"})
    \cup {Reply("json_object", "complete", None, FieldList(<< >>), FALSE, None),
          NoObject("raise")}

\* The replies of a decision function of the class
Replies(p) ==
    IF p.kind = "same_agent" THEN InvokeReplies({p.agent})
    ELSE IF p.kind = "observed" THEN ObservedReplies
    ELSE IF p.kind = "review_loop" THEN ReviewReplies
    ELSE IF p.kind = "no_terminal"
    THEN InvokeReplies(AgentNames) \cup PlainReplies({"update_status", "wait_user"})
         \cup StatusReplies
    ELSE InvokeReplies(AgentNames)
         \cup PlainReplies({"update_status", "wait_user", "complete", "fail"})
         \cup StatusReplies
         \cup MalformedReplies

-----------------------------------------------------------------------------
(* The Conductor: ACT *)

LoopReason == "Auto-completed: agent loop detected"
MaxStepsReason == "Max conductor steps exceeded"
FirstAgentReason == "First agent invoked"

\* The repetition threshold of the hard override
RepeatLimit == 3

\* bool(agent_name)
Named(agent_name) == agent_name # None /\ agent_name # ""

\* Repeat tracking that starts the count again at every invocation
track_repeat_restarts(d, last, count) ==
    IF d.action = "invoke_agent" /\ Named(d.agent_name)
    THEN [last |-> d.agent_name, count |-> 1]
    ELSE [last |-> None, count |-> 0]

\* Conductor._act, the repeat tracking: the new (_last_agent, _repeat_count)
track_repeat(d, last, count) ==
    IF d.action = "invoke_agent" /\ Named(d.agent_name)
    THEN [last |-> d.agent_name,
          count |-> IF d.agent_name = last THEN count + 1 ELSE 1]
    ELSE [last |-> None, count |-> 0]

\* Conductor._act: whether the hard override applies to the decision
loop_override(d, count) ==
    d.action = "invoke_agent" /\ Named(d.agent_name) /\ count >= RepeatLimit

\* StatusChange(reason=...): the validation error of a reason that is no string
status_change_error(reason) ==
    IF reason = None THEN "ValidationError: reason: Input should be a valid string" ELSE ""

\* Conductor._invoke_agent up to the call of the agent: the error raised, ""
\* when there is none
invoke_agent_error(d) ==
    IF ~Named(d.agent_name) THEN ""
    ELSE IF registry_get_error(d.agent_name) # "" THEN registry_get_error(d.agent_name)
    ELSE IF registry_get(d.agent_name) = None THEN ""
    ELSE slice_context_error(d.relevant_fields)

\* Conductor._invoke_agent: whether the agent's execute is reached
invokes(d) ==
    /\ Named(d.agent_name)
    /\ invoke_agent_error(d) = ""
    /\ registry_get(d.agent_name) # None

\* The start of an invocation that opens the record and leaves the status alone
invoke_agent_begin_status_kept(b, agent_name) == log_invocation_start(b, agent_name)

\* Conductor._invoke_agent up to the call of the agent: the invocation record
\* is opened, and the first invocation moves PLANNING to EXECUTING
invoke_agent_begin(b, agent_name) ==
    LET b1 == log_invocation_start(b, agent_name)
    IN IF b1.state.global_status = PLANNING
       THEN set_status(b1, EXECUTING, FirstAgentReason)
       ELSE b1

\* Conductor._invoke_agent: the outcome a just-approved cycle is recorded with
consensus_outcome(c) ==
    IF c.current_iteration = 1 THEN "approved_first_try"
    ELSE IF c.current_iteration < c.max_iterations THEN "approved_after_revision"
    ELSE "force_approved"

\* Whether _invoke_agent finds a consensus cycle that has just been approved
approved(b) == b.state.consensus # Nothing /\ The(b.state.consensus).status = APPROVED

\* The end of an invocation that closes the record and clears no cycle
invoke_agent_end_cycle_kept(b, i) == log_invocation_end(b, i, "completed", None)

\* Conductor._invoke_agent once the agent has returned: the record is closed
\* and an approved consensus cycle is cleared
invoke_agent_end(b, i) ==
    LET b1 == log_invocation_end(b, i, "completed", None)
    IN IF approved(b1) THEN clear_consensus(b1) ELSE b1

\* The consensus cycles recorded once the agent has returned: target field,
\* iterations and outcome, and with them the reviews the cycle had
record_cycles(b, recorded) ==
    IF approved(b)
    THEN Append(recorded,
                [target_field |-> The(b.state.consensus).target_field,
                 iterations |-> The(b.state.consensus).current_iteration,
                 outcome |-> consensus_outcome(The(b.state.consensus)),
                 reviews |-> The(b.state.consensus).review_history])
    ELSE recorded

\* The except branch marking the task FAILED as well
invoke_agent_failed_fatal(b, i, error) ==
    set_status(log_invocation_end(b, i, "error", error), FAILED, error)

\* Conductor._invoke_agent when the agent has raised
invoke_agent_failed(b, i, error) == log_invocation_end(b, i, "error", error)

-----------------------------------------------------------------------------
(* Observability: the EventRecorder and the MetricsCollector of a run, and   *)
(* the hints of the decision prompt.                                         *)

\* EventRecorder(): no events, the current step 0
EventRecorder == [events |-> << >>, current_step |-> 0]

\* EventRecorder.record, on the recorder of the Conductor if it has one: the
\* event carries the current step
record(rec, type, data) ==
    IF rec = Nothing
    THEN rec
    ELSE Some([The(rec) EXCEPT
                !.events = Append(@, [type |-> type,
                                      step |-> The(rec).current_step,
                                      data |-> data])])

\* EventRecorder.set_step
set_step(rec, step) ==
    IF rec = Nothing THEN rec ELSE Some([The(rec) EXCEPT !.current_step = step])

\* EventRecorder.record_status_change
record_status_change(rec, from_status, to_status, reason) ==
    record(rec, "status_change",
           [from_status |-> from_status, to_status |-> to_status, reason |-> reason])

\* MetricsCollector.record_status_transition
record_status_transition(m, from_status, to_status, reason) ==
    [m EXCEPT !.status_transitions =
        Append(@, [from_status |-> from_status, to_status |-> to_status,
                   reason |-> reason])]

\* MetricsCollector.record_conductor_step: the error it raises, "" when it
\* returns; a truthy agent_name is used as a dict key
record_conductor_step_error(agent_name) ==
    IF agent_name = JsonList THEN "TypeError: unhashable type" ELSE ""

\* MetricsCollector.record_conductor_step, called by run with the cumulative
\* usage of the conductor's LLM client as input_tokens
record_conductor_step(m, input_tokens) ==
    [m EXCEPT !.total_steps = @ + 1, !.total_input_tokens = @ + input_tokens]

\* The reason the hard override is recorded with by recorder and metrics
OverrideReason == "Loop detection override"

\* The plan steps whose output field is not a key of the workspace
MissingSteps(workspace, plan) ==
    {i \in 1..Len(plan.steps) : plan.steps[i] \notin DOMAIN workspace}

\* Hints that warn of a repetition only once the override applies
hints_warning_at_limit(state, last, count) ==
    LET has_plan == "plan" \in DOMAIN state.workspace
        plan == Get(state.workspace, "plan")
        with_steps == has_plan /\ plan.type = "dict"
        todo == IF with_steps THEN MissingSteps(state.workspace, plan) ELSE {}
    IN [ plan_exists |-> has_plan,
         next_todo |-> IF todo # {}
                       THEN Some(plan.steps[CHOOSE i \in todo : \A j \in todo : i <= j])
                       ELSE Nothing,
         all_done |-> with_steps /\ todo = {} /\ state.consensus = Nothing,
         no_consensus |-> state.consensus = Nothing,
         repeat_warning |-> IF count >= RepeatLimit THEN Some(last) ELSE Nothing ]

\* Conductor._think, the hints of the user prompt: the plan hint, the output
\* field of the next TODO step, the all-done hint, the no-consensus hint and
\* the agent named by the repetition warning
hints(state, last, count) ==
    LET has_plan == "plan" \in DOMAIN state.workspace
        plan == Get(state.workspace, "plan")
        with_steps == has_plan /\ plan.type = "dict"
        todo == IF with_steps THEN MissingSteps(state.workspace, plan) ELSE {}
    IN [ plan_exists |-> has_plan,
         next_todo |-> IF todo # {}
                       THEN Some(plan.steps[CHOOSE i \in todo : \A j \in todo : i <= j])
                       ELSE Nothing,
         all_done |-> with_steps /\ todo = {} /\ state.consensus = Nothing,
         no_consensus |-> state.consensus = Nothing,
         repeat_warning |-> IF count >= 2 THEN Some(last) ELSE Nothing ]

\* LLMClient.complete_with_usage: the cumulative usage after a call that used
\* the tokens; a call that raises adds nothing
add_usage(usage, reply, tokens) ==
    IF reply.kind = "raise" THEN usage ELSE usage + tokens

\* The input tokens one decision call may use, by the class of the decision
\* function
CallTokens(p) == IF p.kind = "observed" THEN {1, 2} ELSE {1}

\* Conductor.run before the loop: record_task_start, once
task_started(rec, state) ==
    IF rec # Nothing /\ The(rec).events = << >>
    THEN record(rec, "task_start", [task_id |-> state.task_id])
    ELSE rec

\* Conductor._act on a decision that is not overridden and raises nothing:
\* the events recorded up to the call of the agent, if one is called
act_events(rec, b, d) ==
    LET old_status == b.state.global_status
    IN IF d.action = "invoke_agent"
       THEN IF invokes(d)
            THEN LET started == record(rec, "agent_start", [agent_name |-> d.agent_name])
                 IN IF old_status = PLANNING
                    THEN record_status_change(started, old_status, EXECUTING,
                                              FirstAgentReason)
                    ELSE started
            ELSE IF Named(d.agent_name)
            THEN record(rec, "error", [source |-> "conductor"])
            ELSE rec
       ELSE IF d.action = "update_status"
       THEN IF d.status_update # None
            THEN record_status_change(rec, old_status, d.status_update, d.reason)
            ELSE rec
       ELSE IF d.action = "complete"
       THEN record_status_change(rec, old_status, COMPLETED, d.reason)
       ELSE IF d.action = "fail"
       THEN record_status_change(rec, old_status, FAILED, d.reason)
       ELSE rec

\* Conductor._act on a decision that is not overridden and raises nothing:
\* the status transitions recorded in the metrics
act_transitions(m, b, d) ==
    LET old_status == b.state.global_status
    IN IF d.action = "invoke_agent"
       THEN IF invokes(d) /\ old_status = PLANNING
            THEN record_status_transition(m, old_status, EXECUTING, FirstAgentReason)
            ELSE m
       ELSE IF d.action = "update_status"
       THEN IF d.status_update # None
            THEN record_status_transition(m, old_status, d.status_update, d.reason)
            ELSE m
       ELSE IF d.action = "complete"
       THEN record_status_transition(m, old_status, COMPLETED, d.reason)
       ELSE IF d.action = "fail"
       THEN record_status_transition(m, old_status, FAILED, d.reason)
       ELSE m

\* Conductor._invoke_agent once the agent has returned leaving the Blackboard
\* b: agent_end, and consensus_end for a cycle just approved
returned_events(rec, b, agent_name) ==
    LET ended == record(rec, "agent_end", [agent_name |-> agent_name, status |-> "completed"])
    IN IF approved(b)
       THEN record(ended, "consensus_end",
                   [target_field |-> The(b.state.consensus).target_field,
                    outcome |-> consensus_outcome(The(b.state.consensus)),
                    iterations |-> The(b.state.consensus).current_iteration])
       ELSE ended

\* Conductor._invoke_agent, the except branch: agent_end and error
failed_events(rec, agent_name) ==
    record(record(rec, "agent_end", [agent_name |-> agent_name, status |-> "error"]),
           "error", [source |-> agent_name])

-----------------------------------------------------------------------------
(* Conductor.run as a state machine.  pc: "loop" at the while test, "think"  *)
(* before the decision call, "act" before _act, "execute" inside the agent,  *)
(* "exit" after the loop, "returned" or "raised" once run is over.           *)

\* MALSEngine.run: the task is initialized and a Conductor created with a step
\* budget within the limit
InitEngine(policies, limit) ==
    /\ board = initialize("X")
    /\ ret = NoCall
    /\ ws_calls = << >>
    /\ registry = BuiltinRegistry
    /\ metrics = MetricsCollector
    /\ policy \in policies
    /\ max_steps \in 0..limit
    /\ step_count = 0
    /\ last_agent = None
    /\ repeat_count = 0
    /\ pc = "loop"
    /\ raw_response = Nothing
    /\ decision = Nothing
    /\ invocation = 0
    /\ think_calls = 0
    /\ cycles = << >>
    /\ final_status = None
    /\ prompt = Nothing
    /\ total_usage = 0
    /\ conductor_metrics = ConductorMetrics
    /\ recorder = Nothing
    /\ other_board = Nothing
    /\ other_conductor = ClassAttributes

InitRun(policies) == InitEngine(policies, MaxSteps)

\* The step budgets of the recorded runs
MaxRecordedSteps == 3

\* MALSEngine.run(record=True): as InitEngine, with an EventRecorder attached
\* to the Conductor
InitRecorded ==
    /\ board = initialize("X")
    /\ ret = NoCall
    /\ ws_calls = << >>
    /\ registry = BuiltinRegistry
    /\ metrics = MetricsCollector
    /\ policy = Recorded
    /\ max_steps \in 0..MaxRecordedSteps
    /\ step_count = 0
    /\ last_agent = None
    /\ repeat_count = 0
    /\ pc = "loop"
    /\ raw_response = Nothing
    /\ decision = Nothing
    /\ invocation = 0
    /\ think_calls = 0
    /\ cycles = << >>
    /\ final_status = None
    /\ prompt = Nothing
    /\ total_usage = 0
    /\ conductor_metrics = ConductorMetrics
    /\ recorder = Some(EventRecorder)
    /\ other_board = Nothing
    /\ other_conductor = ClassAttributes

\* The while condition with <= where the code has <
loop_condition_inclusive(count, limit) == count <= limit

\* The while condition of Conductor.run
loop_condition(count, limit) == count < limit

\* The while test, the count of the step and the terminal check
LoopHead ==
    /\ pc = "loop"
    /\ IF loop_condition(step_count, max_steps)
       THEN /\ step_count' = step_count + 1
            /\ recorder' = set_step(task_started(recorder, board.state), step_count + 1)
            /\ pc' = IF board.state.global_status \in Terminal THEN "exit" ELSE "think"
       ELSE /\ step_count' = step_count
            /\ recorder' = task_started(recorder, board.state)
            /\ pc' = "exit"
    /\ UNCHANGED << board, ret, ws_calls, registry, metrics, policy,
                    max_steps, last_agent, repeat_count,
                    raw_response, decision, invocation, think_calls, cycles,
                    final_status >>
    /\ UNCHANGED << prompt, total_usage, conductor_metrics >>
    /\ UNCHANGED other_vars

\* SENSE and THINK: the decision function is called and answers
Think ==
    /\ pc = "think"
    /\ \E reply \in Replies(policy), tokens \in CallTokens(policy) :
        LET d == think(reply)
            thought == record(recorder, "conductor_think", [view |-> "dashboard"])
            caught == IF reply.kind # "json_object"
                      THEN record(thought, "error", [source |-> "conductor_think"])
                      ELSE thought
        IN /\ prompt' = Some(hints(board.state, last_agent, repeat_count))
           /\ raw_response' = Some(reply)
           /\ decision' = Some(d)
           /\ total_usage' = add_usage(total_usage, reply, tokens)
           /\ recorder' = record(caught, "conductor_decide",
                                 [action |-> d.action, agent_name |-> d.agent_name])
           /\ conductor_metrics' = record_conductor_step(conductor_metrics, total_usage')
           /\ pc' = IF record_conductor_step_error(d.agent_name) # ""
                    THEN "raised" ELSE "act"
    /\ think_calls' = think_calls + 1
    /\ UNCHANGED << board, ret, ws_calls, registry, metrics, policy,
                    max_steps, step_count, last_agent,
                    repeat_count, invocation, cycles, final_status >>
    /\ UNCHANGED other_vars

\* _act with a last branch that fails the task
act_board_else_fails(b, d) ==
    IF d.action = "invoke_agent"
    THEN IF invokes(d) THEN invoke_agent_begin(b, d.agent_name) ELSE b
    ELSE IF d.action = "update_status"
    THEN IF d.status_update # None THEN set_status(b, d.status_update, d.reason) ELSE b
    ELSE IF d.action = "complete" THEN set_status(b, COMPLETED, d.reason)
    ELSE set_status(b, FAILED, d.reason)

\* Conductor._act on a decision that is not overridden: the Blackboard after
\* it, when nothing is raised
act_board(b, d) ==
    IF d.action = "invoke_agent"
    THEN IF invokes(d) THEN invoke_agent_begin(b, d.agent_name) ELSE b
    ELSE IF d.action = "update_status"
    THEN IF d.status_update # None THEN set_status(b, d.status_update, d.reason) ELSE b
    ELSE IF d.action = "complete" THEN set_status(b, COMPLETED, d.reason)
    ELSE IF d.action = "fail" THEN set_status(b, FAILED, d.reason)
    ELSE b

\* Conductor._act on a decision that is not overridden: the error that leaves
\* _act, and so run, "" when there is none
act_error(d) ==
    IF d.action = "invoke_agent" THEN invoke_agent_error(d)
    ELSE IF d.action = "update_status"
    THEN IF d.status_update # None THEN status_change_error(d.reason) ELSE ""
    ELSE IF d.action \in {"complete", "fail"} THEN status_change_error(d.reason)
    ELSE ""

\* ACT: _act up to the call of the agent, or all of it when no agent is called
Act ==
    /\ pc = "act"
    /\ LET d == The(decision)
           rep == track_repeat(d, last_agent, repeat_count)
       IN /\ last_agent' = rep.last
          /\ repeat_count' = rep.count
          /\ raw_response' = Nothing
          /\ IF loop_override(d, rep.count)
             THEN /\ board' = set_status(board, COMPLETED, LoopReason)
                  /\ recorder' = record_status_change(recorder, board.state.global_status,
                                                      COMPLETED, OverrideReason)
                  /\ conductor_metrics' =
                        record_status_transition(conductor_metrics,
                                                 board.state.global_status,
                                                 COMPLETED, OverrideReason)
                  /\ pc' = "loop"
                  /\ decision' = Nothing
                  /\ invocation' = 0
                  /\ prompt' = Nothing
             ELSE IF act_error(d) # ""
             THEN /\ board' = board
                  /\ recorder' = recorder
                  /\ conductor_metrics' = conductor_metrics
                  /\ pc' = "raised"
                  /\ decision' = decision
                  /\ invocation' = 0
                  /\ prompt' = Nothing
             ELSE IF d.action = "invoke_agent" /\ invokes(d)
             THEN /\ board' = act_board(board, d)
                  /\ recorder' = act_events(recorder, board, d)
                  /\ conductor_metrics' = act_transitions(conductor_metrics, board, d)
                  /\ pc' = "execute"
                  /\ decision' = decision
                  /\ invocation' = Len(board.state.invocation_log) + 1
                  /\ prompt' = prompt
             ELSE /\ board' = act_board(board, d)
                  /\ recorder' = act_events(recorder, board, d)
                  /\ conductor_metrics' = act_transitions(conductor_metrics, board, d)
                  /\ pc' = "loop"
                  /\ decision' = Nothing
                  /\ invocation' = 0
                  /\ prompt' = Nothing
    /\ UNCHANGED << ret, ws_calls, registry, metrics, policy,
                    max_steps, step_count, think_calls, cycles,
                    final_status, total_usage >>
    /\ UNCHANGED other_vars

\* The context slice the agent of the step was given
Context ==
    slice_context(board.state, The(decision).relevant_fields,
                  The(decision).include_consensus)

\* The agent has returned, leaving the Blackboard b: the rest of _invoke_agent
AgentReturns(b) ==
    /\ board' = invoke_agent_end(b, invocation)
    /\ cycles' = record_cycles(b, cycles)
    /\ metrics' = record_agent_invocation(metrics, The(decision).agent_name, TRUE)
    /\ recorder' = returned_events(recorder, b, The(decision).agent_name)
    /\ pc' = "loop"
    /\ decision' = Nothing
    /\ invocation' = 0
    /\ prompt' = Nothing
    /\ UNCHANGED << ret, ws_calls, registry, policy,
                    max_steps, step_count, last_agent,
                    repeat_count, raw_response, think_calls, final_status,
                    total_usage, conductor_metrics >>
    /\ UNCHANGED other_vars

Executing(agent) == pc = "execute" /\ The(decision).agent_name = agent

ExecPlanner ==
    /\ Executing("planner")
    /\ \E plan \in Plans : AgentReturns(planner(board, Context, plan))

ExecCodeGenerator ==
    /\ Executing("code_generator")
    /\ AgentReturns(code_generator(board, Context))

ExecCritic ==
    /\ Executing("critic")
    /\ \E verdict \in Verdicts : AgentReturns(critic(board, Context, verdict))

ExecWriter ==
    /\ Executing("writer")
    /\ AgentReturns(writer(board, Context))

ExecSummarizer ==
    /\ Executing("summarizer")
    /\ AgentReturns(summarizer(board, Context))

\* Whether the agent reaches its LLM call: the critic returns before it when
\* no consensus is active
CallsLLM(agent, b) == agent # "critic" \/ b.state.consensus # Nothing

\* The agent's LLM call raises, and so does execute: the except branch
AgentRaises ==
    /\ pc = "execute"
    /\ CallsLLM(The(decision).agent_name, board)
    /\ board' = invoke_agent_failed(board, invocation, "LLM error")
    /\ metrics' = record_agent_invocation(metrics, The(decision).agent_name, FALSE)
    /\ recorder' = failed_events(recorder, The(decision).agent_name)
    /\ pc' = "loop"
    /\ decision' = Nothing
    /\ invocation' = 0
    /\ prompt' = Nothing
    /\ UNCHANGED << ret, ws_calls, registry, policy,
                    max_steps, step_count, last_agent,
                    repeat_count, raw_response, think_calls, cycles, final_status,
                    total_usage, conductor_metrics >>
    /\ UNCHANGED other_vars

\* The budget test with the check of the final status left out
budget_exhausted_any_status(count, limit, status) == count >= limit

\* Conductor.run after the loop: whether the run is marked FAILED for having
\* used up its steps
budget_exhausted(count, limit, status) ==
    count >= limit /\ status \notin {COMPLETED, FAILED}

\* After the loop: the step budget check and the return
Finish ==
    /\ pc = "exit"
    /\ IF budget_exhausted(step_count, max_steps, board.state.global_status)
       THEN /\ board' = set_status(board, FAILED, MaxStepsReason)
            /\ final_status' = FAILED
       ELSE /\ board' = board
            /\ final_status' = board.state.global_status
    /\ recorder' = record(recorder, "task_end", [status |-> final_status'])
    /\ pc' = "returned"
    /\ UNCHANGED << ret, ws_calls, registry, metrics, policy,
                    max_steps, step_count, last_agent,
                    repeat_count, raw_response, decision, invocation, think_calls,
                    cycles, prompt, total_usage, conductor_metrics >>
    /\ UNCHANGED other_vars

Next ==
    \/ LoopHead
    \/ Think
    \/ Act
    \/ ExecPlanner
    \/ ExecCodeGenerator
    \/ ExecCritic
    \/ ExecWriter
    \/ ExecSummarizer
    \/ AgentRaises
    \/ Finish

\* A run under any decision function
Spec == InitRun({AnyDecision}) /\ [][Next]_vars

\* A recorded run
SpecRecorded == InitRecorded /\ [][Next]_vars

\* A run under a decision function that always names the same agent
SpecSameAgent == InitRun({SameAgent(a) : a \in AgentNames}) /\ [][Next]_vars

\* A run under a decision function that never answers complete or fail
SpecNoTerminal == InitRun({NoTerminal}) /\ [][Next]_vars

\* A run in which only the producers, the critic and the summarizer are invoked
NextReview ==
    \/ LoopHead
    \/ Think
    \/ Act
    \/ ExecCodeGenerator
    \/ ExecCritic
    \/ ExecWriter
    \/ ExecSummarizer
    \/ AgentRaises
    \/ Finish

SpecReview == InitEngine({ReviewLoop}, MaxReviewSteps) /\ [][NextReview]_vars

-----------------------------------------------------------------------------
(* Persistence: a Blackboard is used through its API and through the       *)
(* MemoryManager, and other Blackboards resume the task from its backend.  *)

\* MemoryManager.mark_hot: the state is changed in memory and not persisted
mark_hot(s, field) ==
    IF InSeq(s.memory.hot, field)
    THEN s
    ELSE touch([s EXCEPT !.memory.hot = Append(@, field)])

\* The values agents write: a string, a structured value, None
Artifacts == {Str("a"), Plan(<< "code" >>), NoValue}

\* The task ids resume is called with: the stored one and one never stored
TaskIds == {TaskId, "t0"}

\* The lengths MemoryManager cuts texts at
SummaryPrefix == 200      \* compress_to_warm: content_str[:200]
LlmThreshold == 500       \* compress_to_warm: len(content_str) > 500
DashboardStrLimit == 200  \* generate_dashboard: len(value) > 200
DashboardPrefix == 150    \* generate_dashboard: value[:150]

Min(a, b) == IF a <= b THEN a ELSE b

\* compress_to_warm, the truncation fallback: content_str[:200], and "..." when
\* something was cut
truncated(v) ==
    [ type |-> "str",
      text |-> IF v.type = "str" /\ v.size <= SummaryPrefix THEN v.text ELSE "",
      steps |-> << >>,
      size |-> IF v.size > SummaryPrefix THEN SummaryPrefix + Len("...") ELSE v.size ]

\* MemoryManager.compress_to_warm: the summary it returns.  llm is the LLM
\* client's summary, None when the manager has no client.
warm_summary(s, field_name, llm) ==
    IF field_name \notin DOMAIN s.workspace THEN Str("")
    ELSE IF llm # Nothing /\ s.workspace[field_name].size > LlmThreshold THEN The(llm)
    ELSE truncated(s.workspace[field_name])

\* MemoryManager.compress_to_warm: the state after the call, changed in memory
\* and not persisted
compress_to_warm(s, field_name, llm) ==
    IF field_name \notin DOMAIN s.workspace THEN s
    ELSE touch([s EXCEPT
            !.memory.warm = Put(@, field_name, warm_summary(s, field_name, llm)),
            !.memory.hot = SeqRemove(@, field_name)])

\* MemoryManager.generate_dashboard, the line of a workspace field: how the
\* value is rendered, how many characters of it are shown, and whether its
\* length is annotated
dashboard_line(s, key) ==
    LET value == s.workspace[key]
    IN IF key \in DOMAIN s.memory.warm
       THEN [form |-> "completed", shown |-> s.memory.warm[key].size, annotated |-> FALSE]
       ELSE IF value.type = "str" /\ value.size > DashboardStrLimit
       THEN [form |-> "prefix", shown |-> DashboardPrefix, annotated |-> TRUE]
       ELSE IF value.type = "dict"
       THEN [form |-> "json", shown |-> Min(value.size, DashboardPrefix),
             annotated |-> FALSE]
       ELSE [form |-> "str", shown |-> value.size, annotated |-> FALSE]

\* MemoryManager.generate_dashboard: objective, status, one line per workspace
\* field, the active consensus
generate_dashboard(s) ==
    [ objective |-> s.objective,
      status |-> s.global_status,
      workspace |-> [key \in DOMAIN s.workspace |-> dashboard_line(s, key)],
      consensus |-> s.consensus ]

WriteArtifact ==
    /\ CanCall
    /\ \E k \in Keys, v \in Artifacts :
        /\ board' = write_workspace(board, k, v)
        /\ ret' = Returned("write_workspace", k, NoValue)
    /\ UNCHANGED ws_calls
    /\ UNCHANGED << registry, conductor_vars >>

SetStatus ==
    /\ CanCall
    /\ \E st \in {EXECUTING, COMPLETED} :
        /\ board' = set_status(board, st, "r")
        /\ ret' = Returned("set_status", st, NoValue)
    /\ UNCHANGED ws_calls
    /\ UNCHANGED << registry, conductor_vars >>

MarkHot ==
    /\ CanCall
    /\ \E f \in Keys :
        /\ board' = [board EXCEPT !.state = mark_hot(@, f)]
        /\ ret' = Returned("mark_hot", f, NoValue)
    /\ UNCHANGED ws_calls
    /\ UNCHANGED << registry, conductor_vars >>

\* A second Blackboard over the same backend resumes a task
Resume ==
    /\ \E id \in TaskIds :
        ret' = IF resume_error(board.backend, id) = ""
               THEN Returned("resume", id, resume(board.backend, id).state)
               ELSE Outcome("resume", id, resume_error(board.backend, id))
    /\ UNCHANGED << board, ws_calls >>
    /\ UNCHANGED << registry, conductor_vars >>

\* The fields and values of the MemoryManager's callers: a field and the key
\* of its summary, values of each type around the lengths texts are cut at
MemoryKeys == {"code", "code_summary"}
MemoryValues ==
    {Value(t, n) : t \in {"str", "dict", "list"},
                   n \in {DashboardStrLimit, DashboardStrLimit + 1, LlmThreshold + 1}}

\* The field lists slice_context is given: requested fields in any order
FieldSeqs ==
    {<< >>} \cup {<< f >> : f \in MemoryKeys \cup {"tests"}}
            \cup {<< f, g >> : f, g \in MemoryKeys}

\* What the manager's LLM client answers when asked for a summary
LlmSummary == Str("A summary in one or two sentences.")

WriteValue ==
    /\ CanCall
    /\ \E k \in MemoryKeys, v \in MemoryValues :
        /\ board' = write_workspace(board, k, v)
        /\ ret' = Returned("write_workspace", k, NoValue)
    /\ UNCHANGED ws_calls
    /\ UNCHANGED << registry, conductor_vars >>

DeleteField ==
    /\ CanCall
    /\ \E k \in MemoryKeys :
        /\ board' = delete_workspace(board, k)
        /\ ret' = Returned("delete_workspace", k, NoValue)
    /\ UNCHANGED ws_calls
    /\ UNCHANGED << registry, conductor_vars >>

CompressToWarm ==
    /\ CanCall
    /\ \E f \in MemoryKeys, llm \in {Nothing, Some(LlmSummary)} :
        /\ board' = [board EXCEPT !.state = compress_to_warm(@, f, llm)]
        /\ ret' = Returned("compress_to_warm", f, warm_summary(board.state, f, llm))
    /\ UNCHANGED ws_calls
    /\ UNCHANGED << registry, conductor_vars >>

SliceContext ==
    /\ \E fields \in FieldSeqs :
        ret' = Returned("slice_context", fields,
                        slice_context(board.state, FieldList(fields), FALSE))
    /\ UNCHANGED << board, ws_calls >>
    /\ UNCHANGED << registry, conductor_vars >>

GenerateDashboard ==
    /\ ret' = Returned("generate_dashboard", None, generate_dashboard(board.state))
    /\ UNCHANGED << board, ws_calls >>
    /\ UNCHANGED << registry, conductor_vars >>

NextMemory ==
    \/ WriteValue
    \/ DeleteField
    \/ CompressToWarm
    \/ SliceContext
    \/ GenerateDashboard

SpecMemory == InitBoard /\ [][NextMemory]_vars

\* The agents registered and the names looked up: two agents may share a name
AgentSpecs == {AgentSpec(n, d) : n \in {"a", "b", "dup"}, d \in {"First", "Second"}}
LookupNames == {"a", "b", "dup", "nonexistent"}

Register ==
    /\ \E agent \in AgentSpecs :
        /\ registry' = register(registry, agent)
        /\ ret' = Outcome("register", agent, register_error(registry, agent))
    /\ UNCHANGED << board, ws_calls, conductor_vars >>

GetAgent ==
    /\ \E name \in LookupNames :
        ret' = Returned("get", name, get(registry, name))
    /\ UNCHANGED << board, ws_calls, registry, conductor_vars >>

NextRegistry == Register \/ GetAgent

SpecRegistry == InitBoard /\ [][NextRegistry]_vars

\* set_status called with any status, the current one included
SetAnyStatus ==
    /\ CanCall
    /\ \E st \in GlobalStatus :
        /\ board' = set_status(board, st, "r")
        /\ ret' = Returned("set_status", st, NoValue)
    /\ UNCHANGED ws_calls
    /\ UNCHANGED << registry, conductor_vars >>

NextStatus == SetAnyStatus \/ WriteArtifact \/ Resume

SpecStatus == InitBoard /\ [][NextStatus]_vars

NextPersistence ==
    \/ WriteArtifact
    \/ SetStatus
    \/ StartConsensus
    \/ SubmitReview
    \/ ProposeHypothesis
    \/ MarkHot
    \/ Resume

SpecPersistence == InitBoard /\ [][NextPersistence]_vars

\* The task id BlackboardState() draws for a second task
OtherTaskId == "t2"

\* The second Blackboard as an object: its own state, the backend it shares
Other == [state |-> The(other_board), backend |-> board.backend]

\* The second Blackboard is left in the state of the object b, and the shared
\* backend as b left it
OtherBecomes(b) ==
    /\ other_board' = Some(b.state)
    /\ board' = [board EXCEPT !.backend = b.backend]

\* The calls of the two Blackboards together stay within the bound
TwoCanCall ==
    board.state.updated_at
        + (IF other_board = Nothing THEN 0 ELSE The(other_board).updated_at) <= MaxCalls

OtherCanCall == other_board # Nothing /\ TwoCanCall

\* A second Blackboard is created over the backend and initialized
OtherInitialize ==
    /\ other_board = Nothing
    /\ OtherBecomes(persist([state |-> [NewState("Y") EXCEPT !.task_id = OtherTaskId],
                              backend |-> board.backend]))
    /\ ret' = Returned("initialize", OtherTaskId, NoValue)
    /\ UNCHANGED << ws_calls, registry, metrics, policy, max_steps, step_count,
                    last_agent, repeat_count, pc, raw_response, decision, invocation,
                    think_calls, cycles, final_status, prompt, total_usage,
                    conductor_metrics, recorder, other_conductor >>

\* The second Blackboard's mutators
OtherCall ==
    /\ OtherCanCall
    /\ \/ \E k \in Keys, v \in Artifacts : OtherBecomes(write_workspace(Other, k, v))
       \/ \E k \in Keys : OtherBecomes(delete_workspace(Other, k))
       \/ \E st \in {EXECUTING, COMPLETED} : OtherBecomes(set_status(Other, st, "r"))
       \/ \E f \in Keys : OtherBecomes(start_consensus(Other, f, DefaultMaxIterations))
       \/ \E v \in Verdicts : OtherBecomes(submit_review(Other, "critic", v, "critique"))
    /\ ret' = Returned("other", OtherTaskId, NoValue)
    /\ UNCHANGED << ws_calls, registry, metrics, policy, max_steps, step_count,
                    last_agent, repeat_count, pc, raw_response, decision, invocation,
                    think_calls, cycles, final_status, prompt, total_usage,
                    conductor_metrics, recorder, other_conductor >>

\* Two Blackboards, one backend, their calls interleaved
FirstCall ==
    /\ TwoCanCall
    /\ (WriteArtifact \/ SetStatus \/ StartConsensus \/ SubmitReview)

NextTwoTasks ==
    \/ FirstCall
    \/ OtherInitialize
    \/ OtherCall

SpecTwoTasks == InitBoard /\ [][NextTwoTasks]_vars

-----------------------------------------------------------------------------
(* Two Conductors in one process, each with its own Blackboard: the steps  *)
(* of the second one are interleaved with the run of the first.            *)

\* The repeat tracking of the second Conductor reading the attributes of the
\* first one
OtherTrackSharedAttributes(d) == track_repeat(d, last_agent, repeat_count)

\* Conductor._act, the repeat tracking, on the second Conductor: self._last_agent
\* and self._repeat_count are looked up on the instance
OtherTrack(d) ==
    track_repeat(d, other_conductor.last_agent, other_conductor.repeat_count)

\* One iteration of the loop of the second Conductor, its decision function
\* always naming the critic
OtherStep ==
    /\ other_board # Nothing
    /\ The(other_board).global_status \notin Terminal
    /\ \E reply \in InvokeReplies({"critic"}), verdict \in Verdicts :
        LET d == think(reply)
            rep == OtherTrack(d)
            b1 == invoke_agent_begin(Other, d.agent_name)
            context == slice_context(b1.state, d.relevant_fields, d.include_consensus)
        IN /\ other_conductor' = [last_agent |-> rep.last, repeat_count |-> rep.count]
           /\ IF loop_override(d, rep.count)
              THEN OtherBecomes(set_status(Other, COMPLETED, LoopReason))
              ELSE OtherBecomes(
                       invoke_agent_end(critic(b1, context, verdict),
                                        Len(b1.state.invocation_log)))
    /\ UNCHANGED << ret, ws_calls, registry, metrics, policy, max_steps, step_count,
                    last_agent, repeat_count, pc, raw_response, decision, invocation,
                    think_calls, cycles, final_status, prompt, total_usage,
                    conductor_metrics, recorder >>

NextTwoConductors ==
    \/ Next
    \/ OtherInitialize
    \/ OtherStep

SpecTwoConductors ==
    InitRun({SameAgent(a) : a \in AgentNames}) /\ [][NextTwoConductors]_vars

-----------------------------------------------------------------------------
(* Properties *)

History == board.state.status_history
Log == board.state.invocation_log
Status == board.state.global_status

\* The number of invocation records of the agent
Executions(a) == Cardinality({i \in 1..Len(Log) : Log[i].agent_name = a})

\* The last status transition is the one with the reason
LastTransition(to, reason) ==
    /\ History # << >>
    /\ Last(History).to_status = to
    /\ Last(History).reason = reason

\* Whether the hard override has acted
Overridden == \E i \in 1..Len(History) : History[i].reason = LoopReason

\* C1: under a decision function that always answers invoke_agent for the same
\* agent, with max_steps >= 3: the status is not terminal before the 3rd
\* decision, the 3rd decision is overridden to COMPLETED with the loop-detected
\* reason while step_count is 3, no 4th decision is requested, run returns
\* COMPLETED, and the agent is never executed a 4th time.
C1_SameAgentForcedComplete ==
    max_steps >= 3 =>
        /\ Executions(policy.agent) < 4
        /\ think_calls <= 3
        /\ (think_calls < 3 \/ pc = "act") => Status \notin Terminal
        /\ (think_calls = 3 /\ pc # "act") =>
                /\ Status = COMPLETED
                /\ LastTransition(COMPLETED, LoopReason)
        /\ (think_calls = 3 /\ pc = "loop") => step_count = 3
        /\ pc # "raised"
        /\ pc = "returned" => final_status = COMPLETED

C1_Witness ==
    /\ pc = "returned"
    /\ max_steps > 3
    /\ policy.agent \in Registry
    /\ Executions(policy.agent) = 2
    /\ LastTransition(COMPLETED, LoopReason)

\* C2: under a decision function that never answers complete or fail, a run in
\* which the override did not act calls the decision function exactly
\* max_steps times and returns FAILED, the last status_history entry carrying
\* the reason 'Max conductor steps exceeded'.
C2_BudgetExhausted ==
    /\ think_calls <= max_steps
    /\ pc # "raised"
    /\ (pc = "returned" /\ ~Overridden) =>
            /\ think_calls = max_steps
            /\ final_status = FAILED
            /\ Status = FAILED
            /\ LastTransition(FAILED, MaxStepsReason)

C2_Witness ==
    /\ pc = "returned"
    /\ ~Overridden
    /\ max_steps >= 3
    /\ think_calls = max_steps
    /\ Len(Log) >= 2
    /\ final_status = FAILED

\* C3: whatever the decision function and the agents do, run does not raise,
\* calls the decision function at most max_steps times, and returns COMPLETED
\* or FAILED.
C3_RunAlwaysReturnsTerminal ==
    /\ pc # "raised"
    /\ think_calls <= max_steps
    /\ pc = "returned" => final_status \in Terminal

\* C4: in a consensus cycle started with max_iterations = N >= 1 whose reviews
\* so far are all REJECTED, the status is REJECTED after each of the first N-1
\* reviews and APPROVED after the N-th, and no review raised.
AllRejected(c) ==
    \A i \in 1..Len(c.review_history) : c.review_history[i].verdict = REJECTED

C4_ForcedApprovalAtCap ==
    board.state.consensus # Nothing =>
        LET c == The(board.state.consensus)
        IN (c.max_iterations >= 1 /\ AllRejected(c)) =>
            /\ Len(c.review_history) = c.current_iteration
            /\ c.current_iteration = 0 => c.status = PENDING_REVIEW
            /\ (0 < c.current_iteration /\ c.current_iteration < c.max_iterations)
                    => c.status = REJECTED
            /\ c.current_iteration = c.max_iterations => c.status = APPROVED
            /\ ret.op = "submit_review" => ret.error = ""

C4_Witness ==
    /\ board.state.consensus # Nothing
    /\ The(board.state.consensus).max_iterations >= 3
    /\ AllRejected(The(board.state.consensus))
    /\ The(board.state.consensus).current_iteration = The(board.state.consensus).max_iterations
    /\ The(board.state.consensus).status = APPROVED

\* C5: a step whose decision function raised, or answered no JSON object, or a
\* JSON object without an action, is executed as a fail decision: the status
\* becomes FAILED, the transition with the decision's reason is the last of
\* status_history, no agent is invoked, and run goes on (nothing is raised).
NoDecision(reply) == reply.kind # "json_object" \/ reply.action = Absent

C5_MalformedDecisionFails ==
    [][(pc = "act" /\ NoDecision(The(raw_response)) /\ pc' # "act") =>
            /\ pc' = "loop"
            /\ board'.state.global_status = FAILED
            /\ Last(board'.state.status_history).to_status = FAILED
            /\ Last(board'.state.status_history).reason = The(decision).reason
            /\ board'.state.invocation_log = board.state.invocation_log]_vars

\* C6: code_generator, critic rejecting, code_generator again, critic
\* approving: the approval is recorded as approved_after_revision with 2
\* iterations, and the active consensus is cleared.
Completed(i, agent) ==
    /\ Log[i].agent_name = agent
    /\ Log[i].status = "completed"

C6_ApprovedAfterRevision ==
    [][(/\ pc = "execute"
        /\ Len(Log) = 4
        /\ Completed(1, "code_generator")
        /\ Completed(2, "critic")
        /\ Completed(3, "code_generator")
        /\ Log[4].agent_name = "critic"
        /\ cycles = << >>
        /\ cycles' # << >>) =>
            /\ cycles'[1].outcome = "approved_after_revision"
            /\ cycles'[1].iterations = 2
            /\ board'.state.consensus = Nothing]_vars

\* C7: when run returns after a complete or fail decision, step_count is the
\* number of decision steps performed.
DecisionReasons == {"r", "", ConductorError}

C7_StepCountIsDecisionSteps ==
    (/\ pc = "returned"
     /\ History # << >>
     /\ Last(History).reason \in DecisionReasons) => step_count = think_calls

\* C8: submit_review with no active consensus raises 'No active consensus' and
\* changes nothing: no consensus is created, no review recorded, nothing saved.
C8_ReviewWithoutConsensus ==
    [][(board.state.consensus = Nothing /\ ret'.op = "submit_review") =>
            /\ ret'.error = "RuntimeError: No active consensus cycle."
            /\ board' = board]_vars

C8_Witness ==
    /\ ret.op = "submit_review"
    /\ ret.error = "RuntimeError: No active consensus cycle."
    /\ board.state.consensus = Nothing
    /\ board.state.updated_at >= 3

\* C9: resolve_hypothesis with an id that is not in the thread raises the
\* not-found error and changes nothing: the thread, and what is stored.
Unknown(id) == \A i \in 1..Len(board.state.hypothesis_thread) :
                    board.state.hypothesis_thread[i].id # id

C9_ResolveUnknownHypothesis ==
    [][(ret'.op = "resolve_hypothesis" /\ Unknown(ret'.arg)) =>
            /\ ret'.error = "ValueError: Hypothesis not found"
            /\ board' = board]_vars

C9_Witness ==
    /\ ret.op = "resolve_hypothesis"
    /\ ret.error = "ValueError: Hypothesis not found"
    /\ Len(board.state.hypothesis_thread) >= 2
    /\ \E i \in 1..Len(board.state.hypothesis_thread) :
            board.state.hypothesis_thread[i].status # PROPOSED

\* C10: read_workspace(k) is the value of the last write to k when no delete
\* of k followed it, and None when k was never written or was deleted after
\* its last write; calls on other keys do not matter.
CallsOn(k) == SelectSeq(ws_calls, LAMBDA c : c.field = k)

LastWriteWins(k) ==
    IF CallsOn(k) # << >> /\ Last(CallsOn(k)).op = "write"
    THEN Last(CallsOn(k)).value
    ELSE NoValue

C10_LastWriteWins ==
    /\ \A k \in Keys : read_workspace(board, k) = LastWriteWins(k)
    /\ ret.op = "read_workspace" => ret.value = LastWriteWins(ret.arg)

C10_Witness ==
    /\ ret.op = "read_workspace"
    /\ ret.value = Str("b")
    /\ Len(CallsOn(ret.arg)) >= 3
    /\ \E i \in 1..Len(ws_calls) : ws_calls[i].field = ret.arg /\ ws_calls[i].op = "delete"
    /\ \E i \in 1..Len(ws_calls) : ws_calls[i].field # ret.arg

\* C11: load after save returns a state equal in all fields to the one saved;
\* a change made in memory without a save leaves the stored record as it was;
\* a second Blackboard that resumes the task observes objective, status,
\* workspace, consensus and histories as last persisted, the whole state of
\* the first Blackboard when nothing was changed since.
Observed(s) ==
    << s.task_id, s.objective, s.global_status, s.status_history, s.workspace,
       s.consensus, s.hypothesis_thread, s.invocation_log >>

Requested(f) == InSeq(ret.arg, f)

Live(k) ==
    /\ Requested(k)
    /\ k \in DOMAIN board.state.workspace
    /\ ret.value.workspace[k] = board.state.workspace[k]

Summarized(k) ==
    \E f \in DOMAIN board.state.memory.warm :
        /\ Requested(f)
        /\ k = summary_key(f)
        /\ f \notin DOMAIN board.state.workspace
        /\ ret.value.workspace[k] = board.state.memory.warm[f]

C12_SliceOnlyRequested ==
    ret.op = "slice_context" =>
        /\ ret.error = ""
        /\ \A k \in DOMAIN ret.value.workspace : Live(k) \/ Summarized(k)
        /\ \A f \in MemoryKeys \cup {"tests"} :
            Requested(f) =>
                /\ f \in DOMAIN board.state.workspace => f \in DOMAIN ret.value.workspace
                /\ (/\ f \notin DOMAIN board.state.workspace
                    /\ f \notin DOMAIN board.state.memory.warm
                    /\ f \notin {summary_key(g) : g \in MemoryKeys})
                        => f \notin DOMAIN ret.value.workspace
                /\ (/\ f \notin DOMAIN board.state.workspace
                    /\ f \in DOMAIN board.state.memory.warm)
                        => summary_key(f) \in DOMAIN ret.value.workspace

C12_Witness ==
    /\ ret.op = "slice_context"
    /\ ret.arg = << "code" >>
    /\ "code_summary" \in DOMAIN board.state.workspace
    /\ "code" \notin DOMAIN board.state.workspace
    /\ DOMAIN ret.value.workspace = {"code_summary"}
    /\ ret.value.workspace["code_summary"] = board.state.memory.warm["code"]
    /\ ret.value.workspace["code_summary"] # board.state.workspace["code_summary"]

\* C13: whatever the type and the size of a workspace value, its dashboard
\* line shows at most a fixed number of characters of it, never the whole of
\* a value longer than that.
LineLimit == SummaryPrefix + Len("...")

C13_DashboardLineBounded ==
    ret.op = "generate_dashboard" =>
        \A k \in DOMAIN ret.value.workspace :
            ret.value.workspace[k].shown <= LineLimit

\* C14: registering an agent under a name that is already registered raises
\* and leaves the registry as it was, the first agent bound to the name; get
\* of a name that is not registered returns None and raises nothing.
C14_DuplicateRegistration ==
    [][/\ (ret'.op = "register" /\ ret'.arg.name \in DOMAIN registry) =>
            /\ ret'.error = "ValueError: Agent is already registered."
            /\ registry' = registry
       /\ (ret'.op = "register" /\ ret'.arg.name \notin DOMAIN registry) =>
            /\ ret'.error = ""
            /\ registry'[ret'.arg.name] = ret'.arg
            /\ Cardinality(DOMAIN registry') = Cardinality(DOMAIN registry) + 1
       /\ (ret'.op = "get" /\ ret'.arg \notin DOMAIN registry) =>
            /\ ret'.error = ""
            /\ ret'.value = Nothing]_vars

C14_Witness ==
    /\ ret.op = "register"
    /\ ret.error # ""
    /\ registry[ret.arg.name] # ret.arg
    /\ Cardinality(DOMAIN registry) = 2

\* C15: in the step in which the repetition override fires, the decision
\* function is not called: the calls made are those of the steps before it.
C15_OverrideWithoutThink ==
    [][(/\ pc = "act"
        /\ board'.state.status_history # board.state.status_history
        /\ Last(board'.state.status_history).reason = LoopReason) =>
            think_calls' < step_count']_vars

\* C16: a write-review-revise cycle converges: once a producer has written
\* the field and the critic reviewed it three times (max_iterations), the
\* producer revising in between, a cycle has ended approved, by a verdict or
\* by force, however the critic judged.
Round(i, producer) ==
    /\ Log[2 * i - 1].agent_name = producer
    /\ Log[2 * i - 1].status = "completed"
    /\ Log[2 * i].agent_name = "critic"
    /\ Log[2 * i].status = "completed"

C16_ReviewsConverge ==
    \A producer \in {"code_generator", "writer"} :
        (/\ Len(Log) >= 2 * DefaultMaxIterations
         /\ \A i \in 1..DefaultMaxIterations : Round(i, producer)) => cycles # << >>

\* C17: a recorded cycle is force_approved exactly when its last verdict was
\* not APPROVED; a cycle whose last verdict is APPROVED is approved_first_try
\* with 1 iteration and approved_after_revision with more; a cycle whose only
\* review was REJECTED is not approved_first_try.
C17_OutcomeClassification ==
    [][cycles' # cycles =>
        LET c == Last(cycles')
            verdict == Last(c.reviews).verdict
        IN /\ (c.outcome = "force_approved") <=> (verdict # APPROVED)
           /\ verdict = APPROVED =>
                c.outcome = IF c.iterations = 1 THEN "approved_first_try"
                            ELSE "approved_after_revision"
           /\ (Len(c.reviews) = 1 /\ verdict = REJECTED) =>
                c.outcome # "approved_first_try"]_vars

\* C18: once the status is COMPLETED or FAILED the run calls the decision
\* function no more, adds or closes no invocation record, makes no status
\* transition, and returns that status.
C18_TerminalStops ==
    [][board.state.global_status \in {COMPLETED, FAILED} =>
        /\ think_calls' = think_calls
        /\ board'.state.invocation_log = board.state.invocation_log
        /\ board'.state.status_history = board.state.status_history
        /\ board'.state.global_status = board.state.global_status
        /\ pc' \notin {"think", "act", "execute"}
        /\ pc' = "returned" => final_status' = board.state.global_status]_vars

\* A run that used every step, the decision function called in each, and
\* returned COMPLETED
C18_Witness ==
    /\ pc = "returned"
    /\ final_status = COMPLETED
    /\ board.state.global_status = COMPLETED
    /\ max_steps >= 2
    /\ step_count = max_steps
    /\ think_calls = max_steps

\* The error count of an agent in the metrics
error_count(m, agent_name) ==
    IF agent_name \in DOMAIN m THEN m[agent_name].error_count ELSE 0

\* C19: the step that ends an agent's execution goes back to the loop head; when
\* it closes the record with status "error" the record carries the error text,
\* the agent's metrics count one more invocation and one more error and no
\* more success, and the status and its history are unchanged.
C19_AgentErrorContained ==
    [][pc = "execute" =>
        LET a == The(decision).agent_name
            rec == board'.state.invocation_log[invocation]
            before == IF a \in DOMAIN metrics THEN metrics[a] ELSE AgentMetrics
        IN /\ pc' = "loop"
           /\ final_status' = final_status
           /\ rec.status \in {"completed", "error"}
           /\ (rec.status = "error") <=> (metrics'[a].error_count = before.error_count + 1)
           /\ rec.status = "error" =>
                /\ rec.error = "LLM error"
                /\ metrics'[a].invocation_count = before.invocation_count + 1
                /\ metrics'[a].success_count = before.success_count
                /\ board'.state.global_status = board.state.global_status
                /\ board'.state.global_status # FAILED
                /\ board'.state.status_history = board.state.status_history]_vars

\* An agent has raised and the run has gone on to its next decision
C19_Witness ==
    /\ pc = "act"
    /\ board.state.global_status # FAILED
    /\ \E i \in DOMAIN board.state.invocation_log :
        LET rec == board.state.invocation_log[i]
        IN /\ rec.status = "error"
           /\ rec.error = "LLM error"
           /\ error_count(metrics, rec.agent_name) >= 1

\* C20: acting on an invoke_agent decision that names an agent the registry
\* does not have adds no invocation record and leaves status, status_history,
\* workspace and consensus unchanged, and the run goes on.
C20_UnregisteredAgentNoOp ==
    [][(/\ pc = "act"
        /\ The(decision).action = "invoke_agent"
        /\ Named(The(decision).agent_name)
        /\ The(decision).agent_name \notin DOMAIN registry) =>
            /\ pc' = "loop"
            /\ board'.state.invocation_log = board.state.invocation_log
            /\ board'.state.global_status = board.state.global_status
            /\ board'.state.status_history = board.state.status_history
            /\ board'.state.workspace = board.state.workspace
            /\ board'.state.consensus = board.state.consensus]_vars

\* C21: acting on an update_status decision whose reply asked for a status
\* sets the task status to that status and appends the transition, with the
\* reply's reason, to status_history.
C21_UpdateStatusApplied ==
    [][(/\ pc = "act"
        /\ The(raw_response).kind = "json_object"
        /\ The(raw_response).action = "update_status"
        /\ The(raw_response).status_update \in {REFINING, VERIFYING, WAITING_USER}) =>
            /\ board'.state.global_status = The(raw_response).status_update
            /\ Len(board'.state.status_history) = Len(board.state.status_history) + 1
            /\ Last(board'.state.status_history).to_status = The(raw_response).status_update
            /\ Last(board'.state.status_history).reason = The(raw_response).reason]_vars

\* The status_history entries that go from PLANNING to EXECUTING
FirstInvocations ==
    {i \in 1..Len(History) :
        History[i].from_status = PLANNING /\ History[i].to_status = EXECUTING}

\* C22: once an invocation record exists, whatever became of its agent, the
\* status has left PLANNING through exactly one PLANNING -> EXECUTING
\* transition; while an agent executes the status is EXECUTING and its record
\* is open; and a status that has a history is not PLANNING.
C22_FirstInvocationExecuting ==
    /\ Cardinality(FirstInvocations) <= 1
    /\ History # << >> => Status # PLANNING
    /\ Log # << >> => Cardinality(FirstInvocations) = 1
    /\ pc = "execute" =>
        /\ Status = EXECUTING
        /\ invocation = Len(Log)
        /\ Last(Log).status = "running"

\* Two invocations, the first of which raised, and one transition to EXECUTING
C22_Witness ==
    /\ Len(Log) >= 2
    /\ Log[1].status = "error"
    /\ Log[2].status = "completed"
    /\ Status = EXECUTING
    /\ Cardinality(FirstInvocations) = 1

\* The entries of the history are linked: the first starts from PLANNING, each
\* starts from the status the one before it ended in, the last ends in the
\* current status
Linked(s) ==
    LET h == s.status_history
    IN h # << >> =>
        /\ h[1].from_status = PLANNING
        /\ \A i \in 2..Len(h) : h[i].from_status = h[i - 1].to_status
        /\ Last(h).to_status = s.global_status

\* C23: a set_status call appends one entry, from the status before the call
\* to the new status, and sets the status; no step changes the entries there
\* are or changes the status without an entry; so the history is linked, in
\* the state in memory and in the one a resume loads.
C23_StatusHistoryAppendOnly ==
    /\ [](Linked(board.state) /\ Linked(resume(board.backend, TaskId).state))
    /\ [][/\ Len(History') >= Len(History)
          /\ SubSeq(History', 1, Len(History)) = History
          /\ Status' # Status => Len(History') = Len(History) + 1
          /\ ret'.op = "set_status" =>
                /\ History' = Append(History, [from_status |-> Status,
                                                to_status |-> ret'.arg,
                                                reason |-> "r"])
                /\ Status' = ret'.arg]_vars

\* Three calls, one of which set the status the task already had and one of
\* which went back to PLANNING
C23_Witness ==
    /\ Len(History) = 3
    /\ History[2].from_status = History[2].to_status
    /\ History[3].to_status = PLANNING
    /\ Status = PLANNING

\* C24: the record stored in the backend under the task id is the state in
\* memory, after every operation.
C24_WriteThrough == load(board.backend, TaskId) = Some(board.state)

\* C25: the task has at most one consensus cycle; when a producer agent has
\* returned, and so has called start_consensus, the cycle is a fresh one for
\* a field of the workspace (pending_review, iteration 0, no reviews, the
\* default cap) whatever cycle was active before, and nothing was raised.
C25_StartConsensusReplaces ==
    /\ [](Len(board.state.consensus) <= 1)
    /\ [][(/\ pc = "execute"
          /\ The(decision).agent_name \in {"code_generator", "writer"}
          /\ board'.state.invocation_log[invocation].status = "completed") =>
            /\ pc' = "loop"
            /\ \E f \in DOMAIN board'.state.workspace :
                board'.state.consensus = Some(ConsensusState(f, DefaultMaxIterations))
            /\ load(board'.backend, TaskId) = Some(board'.state)]_vars

\* code_generator, a critic that rejected, code_generator again: the cycle
\* with one review has been replaced by a fresh one
C25_Witness ==
    /\ pc = "loop"
    /\ Len(Log) = 3
    /\ Completed(1, "code_generator")
    /\ Completed(2, "critic")
    /\ Completed(3, "code_generator")
    /\ cycles = << >>
    /\ board.state.consensus = Some(ConsensusState("code", DefaultMaxIterations))

\* C26: no decision step starts with an APPROVED consensus; the cycles
\* recorded grow only in the step of an agent that returns, by the one cycle
\* that was active and not yet APPROVED before the step, and that step clears
\* the consensus.
C26_ApprovedCycleCleared ==
    /\ [](pc \in {"loop", "think", "act", "exit", "returned"} => ~approved(board))
    /\ [][cycles' # cycles =>
            /\ pc = "execute"
            /\ pc' = "loop"
            /\ board.state.consensus # Nothing
            /\ The(board.state.consensus).status # APPROVED
            /\ board'.state.consensus = Nothing
            /\ Len(cycles') = Len(cycles) + 1
            /\ SubSeq(cycles', 1, Len(cycles)) = cycles
            /\ Last(cycles').target_field = The(board.state.consensus).target_field
            /\ Last(cycles').iterations =
                    The(board.state.consensus).current_iteration + 1]_vars

\* A cycle approved by the critic, recorded and cleared, and a further
\* decision step begun
C26_Witness ==
    /\ pc = "think"
    /\ Len(cycles) = 1
    /\ Completed(Len(Log), "critic")
    /\ board.state.consensus = Nothing

\* C27: a submit_review on a consensus whose status is APPROVED leaves the
\* status APPROVED, whatever the verdict.
C27_ApprovedIsTerminal ==
    [][(/\ approved(board)
        /\ ret'.op = "submit_review") =>
            /\ board'.state.consensus # Nothing
            /\ The(board'.state.consensus).status = APPROVED]_vars

\* C28: after compress_to_warm(f) on a field of the workspace, f has a warm
\* summary and is not hot, the workspace no longer holds a value under f, and
\* a slice requesting f holds the summary under f_summary and nothing under f.
C28_CompressReplacesValue ==
    [][(/\ ret'.op = "compress_to_warm"
        /\ ret'.arg \in DOMAIN board.state.workspace) =>
            LET f == ret'.arg
                slice == slice_context(board'.state, FieldList(<< f >>), FALSE)
            IN /\ f \in DOMAIN board'.state.memory.warm
               /\ board'.state.memory.warm[f] = ret'.value
               /\ ~InSeq(board'.state.memory.hot, f)
               /\ f \notin DOMAIN board'.state.workspace
               /\ f \notin DOMAIN slice.workspace
               /\ summary_key(f) \in DOMAIN slice.workspace
               /\ slice.workspace[summary_key(f)] = ret'.value]_vars

\* The number of times the field occurs in hot
Occurrences(hot, f) == Cardinality({i \in 1..Len(hot) : hot[i] = f})

\* C29: no field occurs twice in hot, and after write_workspace(f, v) the
\* field f is the last element of hot.
C29_HotOrderedByRecency ==
    /\ [](\A f \in Keys : Occurrences(board.state.memory.hot, f) <= 1)
    /\ [][ret'.op = "write_workspace" =>
            /\ Occurrences(board'.state.memory.hot, ret'.arg) = 1
            /\ Last(board'.state.memory.hot) = ret'.arg]_vars

\* C30: a field that is hot has no warm summary, and the dashboard line of a
\* hot field of the workspace is made from its value, not from a summary.
C30_HotWarmExclusive ==
    \A f \in MemoryKeys :
        InSeq(board.state.memory.hot, f) =>
            /\ f \notin DOMAIN board.state.memory.warm
            /\ f \in DOMAIN board.state.workspace =>
                    dashboard_line(board.state, f).form # "completed"

\* The record the backend holds for the task, if any
Stored(backend, task_id) ==
    IF task_id \in DOMAIN backend THEN Some(backend[task_id]) ELSE Nothing

\* C31: with two Blackboards of distinct task ids on one backend, the record
\* stored under each id is that task's own state, and a step that changes one
\* task leaves the other's state and stored record as they were.
C31_TasksDoNotInterfere ==
    /\ [](/\ load(board.backend, TaskId) = Some(board.state)
          /\ load(board.backend, OtherTaskId) = other_board)
    /\ [][/\ board'.state # board.state =>
                /\ other_board' = other_board
                /\ Stored(board'.backend, OtherTaskId) = Stored(board.backend, OtherTaskId)
          /\ other_board' # other_board =>
                /\ board'.state = board.state
                /\ Stored(board'.backend, TaskId) = Stored(board.backend, TaskId)]_vars

\* Both tasks have changed since they were initialized, the second one last
C31_Witness ==
    /\ other_board # Nothing
    /\ ret.op = "other"
    /\ The(other_board).updated_at >= 2
    /\ board.state.updated_at >= 2
    /\ board.state.workspace # EmptyDict
    /\ The(other_board).workspace # EmptyDict
    /\ The(other_board).workspace # board.state.workspace

\* C32: the repeat tracking belongs to one Conductor.  A Conductor starts with
\* no last agent and a count of zero; the count of each of two interleaved
\* Conductors is the number of its own consecutive decisions for the agent, and
\* a step of one leaves the last agent and the count of the other as they were.
C32_RepeatStatePerConductor ==
    /\ [](/\ think_calls = 0 => last_agent = None /\ repeat_count = 0
          /\ repeat_count = think_calls - (IF pc = "act" THEN 1 ELSE 0)
          /\ other_board = Nothing => other_conductor = ClassAttributes
          /\ other_board # Nothing =>
                other_conductor.repeat_count =
                    Len(The(other_board).invocation_log)
                    + (IF The(other_board).global_status = COMPLETED THEN 1 ELSE 0))
    /\ [][/\ other_conductor' # other_conductor =>
                last_agent' = last_agent /\ repeat_count' = repeat_count
          /\ (last_agent' # last_agent \/ repeat_count' # repeat_count) =>
                other_conductor' = other_conductor]_vars

\* Both Conductors have been overridden, each after three decisions of its own
C32_Witness ==
    /\ pc = "returned"
    /\ repeat_count = RepeatLimit
    /\ LastTransition(COMPLETED, LoopReason)
    /\ other_board # Nothing
    /\ other_conductor = [last_agent |-> "critic", repeat_count |-> RepeatLimit]
    /\ The(other_board).global_status = COMPLETED
    /\ policy.agent # "critic"

\* Whether the invocation record is closed
Closed(r) == r.status \in {"completed", "error"}

\* C33: the invocation log only grows by appended records; a record is opened
\* as running and closed once, as completed or as error, before the next
\* decision step; a closed record is never changed, and no record is running
\* at a step boundary.
C33_InvocationLogClosedOnce ==
    /\ [](/\ \A i \in 1..Len(Log) :
                Log[i].status = "running" <=> (pc = "execute" /\ i = invocation)
          /\ \A i \in 1..Len(Log) : Closed(Log[i]) \/ Log[i].status = "running")
    /\ [][/\ Len(Log') \in {Len(Log), Len(Log) + 1}
          /\ Len(Log') = Len(Log) + 1 =>
                /\ Last(Log').status = "running"
                /\ pc = "act" /\ pc' = "execute"
          /\ \A i \in 1..Len(Log) :
                /\ Log'[i].agent_name = Log[i].agent_name
                /\ Closed(Log[i]) => Log'[i] = Log[i]
                /\ Log'[i] # Log[i] => Closed(Log'[i]) /\ pc' = "loop"]_vars

\* A run has ended with one record closed as completed and a later one closed
\* as error
C33_Witness ==
    /\ pc = "returned"
    /\ Len(Log) = 2
    /\ Log[1].status = "completed"
    /\ Log[2].status = "error"

\* The events recorded so far
Events == The(recorder).events

\* The positions of the events of the type
EventsOf(type) == {i \in 1..Len(Events) : Events[i].type = type}

\* Whether run is over, by a return or by an exception
RunOver == pc \in {"returned", "raised"}

\* The event log but for its end: steps never decrease, task_start comes first,
\* every conductor_think is followed by the conductor_decide of its step before
\* any other conductor_think, and every agent_start by one agent_end of the
\* same agent before any other agent_start
EventsOrdered ==
    /\ \A i, j \in 1..Len(Events) : i <= j => Events[i].step <= Events[j].step
    /\ Events # << >> => Events[1].type = "task_start"
    /\ EventsOf("task_start") \subseteq {1}
    /\ \A i \in EventsOf("conductor_think") :
            \E j \in EventsOf("conductor_decide") :
                /\ i < j
                /\ Events[j].step = Events[i].step
                /\ \A k \in (i + 1)..(j - 1) :
                        Events[k].type \notin {"conductor_think", "conductor_decide"}
    /\ \A i \in EventsOf("agent_start") :
            \/ (pc = "execute" /\ \A k \in EventsOf("agent_start") : k <= i)
            \/ \E j \in EventsOf("agent_end") :
                /\ i < j
                /\ Events[j].data.agent_name = Events[i].data.agent_name
                /\ \A k \in (i + 1)..(j - 1) :
                        Events[k].type \notin {"agent_start", "agent_end"}
                /\ \A k \in (j + 1)..Len(Events) :
                        Events[k].type = "agent_end" =>
                            \E l \in (j + 1)..(k - 1) : Events[l].type = "agent_start"

\* C34: the event log of a run has steps that never decrease, starts with
\* task_start and ends with task_end, has every conductor_think followed by the
\* conductor_decide of the same step, and every agent_start followed by exactly
\* one agent_end of the same agent before a further agent_start.
C34_EventLogWellFormed ==
    recorder # Nothing =>
        /\ EventsOrdered
        /\ RunOver =>
            /\ Events # << >>
            /\ Last(Events).type = "task_end"
            /\ EventsOf("task_end") = {Len(Events)}

\* The actions _act has a branch for
HandledActions == {"invoke_agent", "update_status", "complete", "fail"}

\* Whether the last event is the conductor_decide of an action _act has no
\* branch for
UnknownActionDecided ==
    /\ Events # << >>
    /\ Last(Events).type = "conductor_decide"
    /\ Last(Events).data.action \notin HandledActions

\* C35: a decision with an action string that _act does not know changes
\* nothing of the task state (status, status_history, workspace, consensus,
\* invocation_log), invokes no agent and records no event; its step stays
\* counted, and the loop goes on to the next decision step while steps remain.
C35_UnknownActionNoOp ==
    /\ [][(pc = "act" /\ UnknownActionDecided) =>
            /\ board' = board
            /\ metrics' = metrics
            /\ recorder' = recorder
            /\ step_count' = step_count
            /\ pc' = "loop"]_vars
    /\ [][(pc = "loop" /\ UnknownActionDecided) =>
            IF step_count < max_steps
            THEN pc' = "think" /\ step_count' = step_count + 1
            ELSE pc' = "exit"]_vars

\* A decision step is reached after a step whose action was unknown
C35_Witness ==
    /\ pc = "think"
    /\ step_count = 2
    /\ think_calls = 1
    /\ UnknownActionDecided
    /\ Last(Events).data.action = "restart"
    /\ Status = PLANNING
    /\ History = << >>
    /\ Log = << >>

\* Whether _act is about to apply the hard override to the decision
OverrideDue ==
    /\ pc = "act"
    /\ loop_override(The(decision),
                     track_repeat(The(decision), last_agent, repeat_count).count)

\* C36: whenever the hard override forces COMPLETED for an agent, the decision
\* call that produced the overridden decision carried the repetition warning
\* naming that agent: the warning comes at a count of 2, the override at 3.
C36_WarningBeforeOverride ==
    /\ OverrideDue =>
            /\ The(prompt).repeat_warning = Some(The(decision).agent_name)
            /\ repeat_count = RepeatLimit - 1
    /\ (pc = "act" /\ repeat_count < RepeatLimit - 1) =>
            The(prompt).repeat_warning = Nothing

\* The third decision in a row for the writer is about to be overridden, some
\* steps into the run
C36_Witness ==
    /\ OverrideDue
    /\ The(decision).agent_name = "writer"
    /\ The(prompt).repeat_warning = Some("writer")
    /\ think_calls = 4
    /\ Executions("writer") = 2
    /\ Executions("planner") = 1

\* C37: while a consensus cycle is active, current_iteration is the number of
\* its reviews, its status is pending_review exactly when there is none, a
\* rejected cycle has iterations left, and the status is never in_review.
C37_ConsensusInvariants ==
    board.state.consensus # Nothing =>
        LET c == The(board.state.consensus)
        IN /\ c.current_iteration = Len(c.review_history)
           /\ c.status = PENDING_REVIEW <=> c.current_iteration = 0
           /\ c.status = REJECTED => c.current_iteration < c.max_iterations
           /\ c.status # IN_REVIEW

\* A cycle of three iterations rejected twice, the last review with the verdict
\* in_review
C37_Witness ==
    /\ board.state.consensus # Nothing
    /\ The(board.state.consensus).status = REJECTED
    /\ The(board.state.consensus).max_iterations = 3
    /\ The(board.state.consensus).current_iteration = 2
    /\ Last(The(board.state.consensus).review_history).verdict = IN_REVIEW
    /\ ret.op = "submit_review"

\* The (from, to) pairs of a sequence of transitions
Pairs(transitions) ==
    [i \in 1..Len(transitions) |->
        << transitions[i].from_status, transitions[i].to_status >>]

\* The data of the status_change events, in order
RECURSIVE StatusChanges(_)
StatusChanges(events) ==
    IF events = << >> THEN << >>
    ELSE IF events[1].type = "status_change"
    THEN << events[1].data >> \o StatusChanges(Tail(events))
    ELSE StatusChanges(Tail(events))

\* C38: when a run with metrics and recorder returns, the transitions the
\* MetricsCollector recorded and the recorder's status_change events are the
\* (from, to) pairs of status_history, the transition into the final status
\* included.
C38_TransitionsRecorded ==
    (pc = "returned" /\ recorder # Nothing) =>
        /\ Pairs(conductor_metrics.status_transitions) = Pairs(History)
        /\ Pairs(StatusChanges(Events)) = Pairs(History)

\* C39: when a run returns, the conductor's token sum in the metrics is the
\* cumulative usage of the conductor's LLM client, the sum of the tokens of
\* the decision calls.
C39_ConductorTokensAgree ==
    pc = "returned" => conductor_metrics.total_input_tokens = total_usage

\* The built-in agents that write an artifact and open its review
Producers == {"code_generator", "writer"}

\* Whether the step is the return of a producer invoked in a decision step
\* whose prompt named a next TODO step
ProducerReturns ==
    /\ pc = "execute"
    /\ The(decision).agent_name \in Producers
    /\ Log'[invocation].status = "completed"
    /\ The(prompt).next_todo # Nothing

\* C40: when the plan has a step whose output field is absent from the
\* workspace, the field a built-in producer writes is the output field of the
\* next TODO step named in the prompt of that decision step, whatever
\* relevant_fields the decision carried; so no field with content is written
\* again while the field of an earlier step is missing.
C40_ProducerWritesNextTodo ==
    [][ProducerReturns =>
            /\ The(board'.state.consensus).target_field = The(The(prompt).next_todo)
            /\ The(board'.state.consensus).target_field \notin DOMAIN board.state.workspace
      ]_vars

====
